---- MODULE Spec2Model ----
(***************************************************************************)
(* Model of the asset publish pipeline of src/src/lib.rs                   *)
(* (process_and_upload_all and everything it calls), of the mirror sync    *)
(* (mkdir_and_download_all_images_from_s3 with S3Mount of                  *)
(* src/src/mount_s3.rs) and of the functions they share.  Spec is the      *)
(* pipeline, SpecMirror the mirror sync, SpecFn the functions applied to   *)
(* arguments; each leaves the variables of the others as they are.         *)
(*                                                                         *)
(* File names are sequences of one-character strings, so that the string   *)
(* functions of the code (to_lowercase, replace, filter, Path::extension,  *)
(* Path::file_stem, Path::with_extension, format!) are computed and not    *)
(* assumed.  A directory is a function from the names in it to the         *)
(* contents stored under them; the object store is a function from keys to *)
(* contents.                                                               *)
(***************************************************************************)
EXTENDS Integers, Sequences, FiniteSets, TLC

(***************************************************************************)
(* Bounds of the model.                                                    *)
(***************************************************************************)
\* the largest number of entries on disk (in the inbox and left in the image
\* working directory) when a run starts
MaxFiles == 2
\* the largest number of I/O faults (failing syscalls, failing puts) in a run
MaxFaults == 1
\* the largest length of a string handed to sanitize_filename
MaxLen == 3
\* the largest length of the stem of a name handed to the classifiers
MaxStem == 2
\* the largest number of runs (processes) compared with each other
MaxRuns == 2
\* the largest width and the largest height of an image handed to the
\* computations of the variant dimensions
MaxSide == 80

(***************************************************************************)
(* Characters and strings.                                                 *)
(***************************************************************************)
Upper == <<"A","B","C","D","E","F","G","H","I","J","K","L","M","N","O","P","Q","R","S","T","U","V","W","X","Y","Z","É">>
Lower == <<"a","b","c","d","e","f","g","h","i","j","k","l","m","n","o","p","q","r","s","t","u","v","w","x","y","z","é">>
DigitChars == <<"0","1","2","3","4","5","6","7","8","9">>

Range(s) == { s[i] : i \in DOMAIN s }

\* char::to_lowercase, on the characters of the model
LowerOf == [ c \in Range(Upper) |-> Lower[CHOOSE i \in DOMAIN Upper : Upper[i] = c] ]
ToLowerChar(c) == IF c \in DOMAIN LowerOf THEN LowerOf[c] ELSE c

\* str::to_lowercase
ToLowercase(s) == [ i \in DOMAIN s |-> ToLowerChar(s[i]) ]

\* char::is_alphanumeric (Unicode: the accented letters count)
Alphanumerics == Range(Upper) \cup Range(Lower) \cup Range(DigitChars)
IsAlphanumeric(c) == c \in Alphanumerics

\* str::replace(' ', "-")
ReplaceSpaces(s) == [ i \in DOMAIN s |-> IF s[i] = " " THEN "-" ELSE s[i] ]

\* the characters sanitize_filename keeps
KeepChar(c) == IsAlphanumeric(c) \/ c = "-" \/ c = "_" \/ c = "."

\* lib.rs sanitize_filename: lowercase, spaces to hyphens, filter
sanitize_filename(filename) == SelectSeq(ReplaceSpaces(ToLowercase(filename)), KeepChar)

\* the position of the last dot of a name, 0 when it has none
RECURSIVE LastDotUpTo(_, _)
LastDotUpTo(n, i) == IF i = 0 THEN 0 ELSE IF n[i] = "." THEN i ELSE LastDotUpTo(n, i - 1)
LastDot(n) == LastDotUpTo(n, Len(n))

\* Path::extension: the part after the last dot; none when the name has no
\* dot, or when its only dot is its first character.  <<"-">> stands for None
\* (no extension of the classifiers' tables holds a hyphen).
NoExt == <<"-">>
HasExtension(n) == LastDot(n) > 1
Extension(n) == LET k == LastDot(n) IN IF k > 1 THEN SubSeq(n, k + 1, Len(n)) ELSE NoExt

\* Path::file_stem: the part before the last dot, the whole name when
\* Path::extension is None
FileStem(n) == LET k == LastDot(n) IN IF k > 1 THEN SubSeq(n, 1, k - 1) ELSE n

\* Path::with_extension
WithExtension(n, e) == FileStem(n) \o <<".">> \o e

\* format!("{}", n) of an unsigned number
RECURSIVE Decimal(_)
Decimal(n) == IF n < 10 THEN <<DigitChars[n + 1]>> ELSE Decimal(n \div 10) \o <<DigitChars[(n % 10) + 1]>>

PNG == <<"p","n","g">>
JPG == <<"j","p","g">>
JPEG == <<"j","p","e","g">>

ImageExtensions ==
  { PNG, JPG, JPEG, <<"g","i","f">>, <<"b","m","p">>, <<"t","i","f","f">>, <<"w","e","b","p">> }

DocumentExtensions ==
  { <<"d","o","c">>, <<"d","o","c","x">>, <<"p","d","f">>, <<"t","x","t">>, <<"r","t","f">>,
    <<"x","l","s">>, <<"x","l","s","x">>, <<"c","s","v">>, <<"p","p","t">>, <<"p","p","t","x">>,
    <<"z","i","p">>, <<"r","a","r">>, <<"7","z">> }

\* a variant of is_image that compares the extension as it is
is_image_CaseSensitive(n) == Extension(n) \in ImageExtensions

\* lib.rs is_image
is_image(n) == ToLowercase(Extension(n)) \in ImageExtensions

\* lib.rs is_valid_file_type
ValidExtensions == ImageExtensions \cup DocumentExtensions
is_valid_file_type(n) ==
  LET extension == IF HasExtension(n) THEN ToLowercase(Extension(n)) ELSE <<>>
  IN  extension \in ValidExtensions


(***************************************************************************)
(* Constants of the program.                                               *)
(***************************************************************************)
\* lib.rs VARIANT_SETTINGS: variant name -> width
VARIANT_SETTINGS == [ mobile |-> 200, tablet |-> 400, desktop_md |-> 800, desktop_lg |-> 1200 ]
VariantNames == DOMAIN VARIANT_SETTINGS

\* the orders in which a HashMap with these four keys can be iterated
IterationOrders ==
  { o \in [1..Cardinality(VariantNames) -> VariantNames] : \A i, j \in DOMAIN o : o[i] = o[j] => i = j }

\* STATIC_S3_PREFIX ("static/"); IMAGE_S3_PREFIX is the empty string
STATIC_S3_PREFIX == <<"s","t","a","t","i","c","/">>
IMAGE_S3_PREFIX == <<>>

\* the two working directories, in the order process_and_upload_all visits them
Dirs == <<"images", "files">>

\* the name prepare_working_directories refuses to move
Placeholder ==
  <<"_","_","a","d","d"," ","i","m","a","g","e"," ","o","r"," ","s","t","a","t","i","c"," ",
    "f","i","l","e","s"," ","t","o"," ","t","h","i","s"," ","f","o","l","d","e","r","_","_">>

(***************************************************************************)
(* What a run can find on disk when it starts.  A content records where    *)
(* the bytes come from (src), whether the entry is a regular file, whether *)
(* the image codec can decode it, its pixel size, and how the bytes were   *)
(* produced ("orig": as dropped, "png": re-encoded by convert_jpg_to_png,  *)
(* "variant": written by resize_image).                                    *)
(***************************************************************************)
File(src, img, w, h) == [ src |-> src, kind |-> "file", img |-> img, w |-> w, h |-> h, enc |-> "orig" ]
Directory(src) == [ src |-> src, kind |-> "dir", img |-> FALSE, w |-> 0, h |-> 0, enc |-> "orig" ]

InboxUniverse ==
  { [ name |-> <<"M","y"," ","P","h","o","t","o",".","J","P","G">>, data |-> File("E1", TRUE, 300, 150) ],
    [ name |-> <<"m","y","-","p","h","o","t","o",".","j","p","g">>, data |-> File("E2", TRUE, 640, 480) ],
    [ name |-> <<"m","y","-","p","h","o","t","o",".","p","n","g">>, data |-> File("E3", TRUE, 200, 200) ],
    [ name |-> <<"b","a","d",".","j","p","e","g">>, data |-> File("E4", FALSE, 0, 0) ],
    [ name |-> <<"R","e","p","o","r","t",".","P","D","F">>, data |-> File("E5", FALSE, 0, 0) ],
    [ name |-> <<"n","o","t","e","s",".","m","d">>, data |-> File("E6", FALSE, 0, 0) ],
    [ name |-> Placeholder, data |-> File("E7", FALSE, 0, 0) ],
    [ name |-> <<"#",".","p","n","g">>, data |-> File("E8", TRUE, 100, 100) ],
    [ name |-> <<"a","l","b","u","m",".","p","n","g">>, data |-> Directory("E9") ],
    [ name |-> <<"m","y","-","p","h","o","t","o","_","w","2","0","0",".","p","n","g">>, data |-> File("E10", TRUE, 50, 50) ] }

\* a file a previous run left in the image working directory (a run that ends
\* with an error result does not clean up)
LeftoverUniverse ==
  { [ name |-> <<"o","l","d",".","p","n","g">>, data |-> File("L1", TRUE, 400, 300) ] }

EmptyDir == [ n \in {} |-> File("-", FALSE, 0, 0) ]
DirOf(entries) == [ n \in { e.name : e \in entries } |-> (CHOOSE e \in entries : e.name = n).data ]

\* directory operations
Exists(dir, n) == n \in DOMAIN dir
WriteFile(dir, n, c) == [ m \in DOMAIN dir \cup {n} |-> IF m = n THEN c ELSE dir[m] ]
RemoveFile(dir, n) == [ m \in DOMAIN dir \ {n} |-> dir[m] ]

VARIABLES
  inboxExists,      \* INBOX_DIR exists
  inbox,            \* INBOX_DIR: name -> content
  inbox0,           \* the inbox as the run found it (history)
  wexists0,         \* the working trees the run found (history)
  wd0,              \* the working directories as the run found them (history)
  wexists,          \* for each working tree: it exists
  wd,               \* for each working directory: name -> content
  store,            \* the bucket: key -> content
  metaImages,       \* data/images: uid -> record
  metaFiles,        \* data/files: uid -> record
  pc,               \* where process_and_upload_all is
  pending,          \* prepare_working_directories: the entries still to move
  dirIdx,           \* process_and_upload_all: index of the directory of the loop
  files,            \* process_and_upload_all: the entries of the listing still to process
  total_count,
  processed_count,
  result,           \* what process_and_upload_js returns, <<>> while running
  variantOrder,     \* the iteration order of VARIANT_SETTINGS, <<>> until first used
  faults,           \* the I/O faults so far
  hist,             \* one record per call of process_and_upload_file (history)
  phases,           \* the phases the run has entered (history)
  cleanupFailed     \* the working trees whose removal failed (history: the log)

\* the state of the mirror sync (mkdir_and_download_all_images_from_s3)
VARIABLES
  docs,             \* IMAGE_DATA_DIR: file name -> document
  remote,           \* the keys get_object finds in the bucket
  mirrorExists,     \* LOCAL_IMAGE_DIR exists
  mirror,           \* LOCAL_IMAGE_DIR: relative path -> content
  mpc,              \* where the mirror sync is
  mkeys,            \* the entries get_image_metadata returned, in the order of the loop
  ki,               \* the index of the entry of the loop
  mresult,          \* what the host operation returned, "none" while running
  mfaults,          \* the I/O faults of the mirror sync so far
  runs,             \* the runs of the mirror sync that have returned
  mlog              \* one record per call of download_file (history)

\* the application of a function of the program to an argument
VARIABLES
  fn,               \* the function applied, "none" before
  arg,              \* its argument
  ret               \* the values returned so far

mirrorVars == << docs, remote, mirrorExists, mirror, mpc, mkeys, ki, mresult, mfaults, runs, mlog >>
fnVars == << fn, arg, ret >>
pipelineVars ==
  << inboxExists, inbox, inbox0, wexists0, wd0, wexists, wd, store, metaImages, metaFiles, pc, pending,
     dirIdx, files, total_count, processed_count, result, variantOrder, faults, hist, phases,
     cleanupFailed >>

vars == << pipelineVars, mirrorVars, fnVars >>

\* the mirror sync has not been called
MirrorIdle ==
  /\ docs = << >>
  /\ remote = {}
  /\ mirrorExists = FALSE
  /\ mirror = << >>
  /\ mpc = "idle"
  /\ mkeys = << >>
  /\ ki = 0
  /\ mresult = "none"
  /\ mfaults = 0
  /\ runs = 0
  /\ mlog = << >>

\* no function has been applied
FnIdle ==
  /\ fn = "none"
  /\ arg = << >>
  /\ ret = << >>

Init ==
  /\ inboxExists \in BOOLEAN
  /\ \E es \in SUBSET InboxUniverse, ls \in SUBSET LeftoverUniverse :
       /\ Cardinality(es) + Cardinality(ls) <= MaxFiles
       /\ inboxExists = FALSE => es = {}
       /\ inbox = DirOf(es)
       /\ inbox0 = inbox
       /\ wexists = [ d \in Range(Dirs) |-> ls # {} ]
       /\ wd = [ d \in Range(Dirs) |-> IF d = "images" THEN DirOf(ls) ELSE EmptyDir ]
  /\ wexists0 = wexists
  /\ wd0 = wd
  /\ store = EmptyDir
  /\ metaImages = [ u \in {} |-> 0 ]
  /\ metaFiles = [ u \in {} |-> 0 ]
  /\ pc = "start"
  /\ pending = {}
  /\ dirIdx = 1
  /\ files = {}
  /\ total_count = 0
  /\ processed_count = 0
  /\ result = <<>>
  /\ variantOrder = <<>>
  /\ faults = 0
  /\ hist = <<>>
  /\ phases = {}
  /\ cleanupFailed = {}
  /\ MirrorIdle
  /\ FnIdle


(***************************************************************************)
(* The result strings.                                                     *)
(***************************************************************************)
\* process_and_upload_js: format!("Error: {}", e)
ErrorResult(e) == << "Error: ", e >>
\* process_and_upload_all: the two Ok values
NoValidFiles == << "No valid files to process." >>
Summary(x, y) == << "Successfully processed and uploaded ", x, " out of ", y, " files." >>

IsError(r) == Len(r) = 2 /\ r[1] = "Error: "
IsSummary(r) == r = NoValidFiles \/ (Len(r) = 5 /\ r[1] = "Successfully processed and uploaded ")

(***************************************************************************)
(* prepare_working_directories                                             *)
(***************************************************************************)
\* a variant of InboxFilter without the check of the file type
InboxFilter_AnyType(dir, n) ==
  /\ dir[n].kind = "file"
  /\ n # Placeholder

\* the filter of the inbox listing
InboxFilter(dir, n) ==
  /\ dir[n].kind = "file"
  /\ is_valid_file_type(n)
  /\ n # Placeholder

\* the working directory an inbox entry is moved to
TargetDir(n) == IF is_image(n) THEN "images" ELSE "files"

\* a variant of TargetName that keeps the name of the inbox entry
TargetName_Raw(n) == n

\* the name an inbox entry gets in its working directory
TargetName(n) == sanitize_filename(n)

\* a variant of Abort in which the error is dropped and the run goes on
Abort_Continue(e) ==
  /\ UNCHANGED result
  /\ pc' = "list"

\* the run ends with an error: process_and_upload_all propagates it with ?,
\* process_and_upload_js turns it into the string it returns
Abort(e) ==
  /\ result' = ErrorResult(e)
  /\ pc' = "done"

\* a variant of InboxNotFound in which a missing inbox is an error
InboxNotFound_Error ==
  Abort("inbox not found")

\* the inbox does not exist: the message is printed, and
\* prepare_working_directories returns Ok(())
InboxNotFound ==
  /\ pc' = "list"
  /\ UNCHANGED result

\* the inbox does not exist: return Ok(()) at once; otherwise create the two
\* working directories and list the inbox
PrepareBegin ==
  /\ pc = "start"
  /\ phases' = phases \cup {"Relocate"}
  /\ \/ /\ ~inboxExists
        /\ InboxNotFound
        /\ UNCHANGED << wexists, pending, faults >>
     \/ /\ inboxExists
        /\ \E fault \in {"none", "create_dir_all images", "create_dir_all files", "read_dir inbox"} :
             /\ fault # "none" => faults < MaxFaults
             /\ faults' = IF fault = "none" THEN faults ELSE faults + 1
             /\ wexists' = [ d \in Range(Dirs) |->
                             CASE fault = "create_dir_all images" -> wexists[d]
                               [] fault = "create_dir_all files" -> wexists[d] \/ d = "images"
                               [] OTHER -> TRUE ]
             /\ IF fault = "none"
                  THEN /\ pending' = { n \in DOMAIN inbox : InboxFilter(inbox, n) }
                       /\ pc' = IF pending' = {} THEN "list" ELSE "relocate"
                       /\ UNCHANGED result
                  ELSE /\ Abort(fault)
                       /\ UNCHANGED pending
  /\ UNCHANGED << inboxExists, inbox, inbox0, wexists0, wd0, wd, store, metaImages, metaFiles, dirIdx, files,
                  total_count, processed_count, variantOrder, hist, cleanupFailed >>
  /\ UNCHANGED << mirrorVars, fnVars >>

\* one iteration of the loop over the listing: fs::rename, which replaces a
\* file that is already at the target path
MoveOne ==
  /\ pc = "relocate"
  /\ \E n \in pending :
       \/ /\ inbox' = RemoveFile(inbox, n)
          /\ wd' = [ wd EXCEPT ![TargetDir(n)] = WriteFile(@, TargetName(n), inbox[n]) ]
          /\ pending' = pending \ {n}
          /\ pc' = IF pending' = {} THEN "list" ELSE "relocate"
          /\ UNCHANGED << result, faults >>
       \/ /\ faults < MaxFaults
          /\ faults' = faults + 1
          /\ Abort("rename")
          /\ UNCHANGED << inbox, wd, pending >>
  /\ UNCHANGED << inboxExists, inbox0, wexists0, wd0, wexists, store, metaImages, metaFiles, dirIdx, files,
                  total_count, processed_count, variantOrder, hist, phases, cleanupFailed >>
  /\ UNCHANGED << mirrorVars, fnVars >>

(***************************************************************************)
(* process_and_upload_file.  The function is computed on a record fx of    *)
(* what it can change (the working directories, the bucket, the metadata   *)
(* directories), the keys it has put and err, "" until a step fails; a     *)
(* step after a failed one does nothing (the ? operator returned).  fp is  *)
(* the I/O fault of this call: the step named fp.at fails (for a step of   *)
(* the variant loop, in iteration fp.i).                                   *)
(***************************************************************************)
NoFault == [ at |-> "none", i |-> 0 ]
FaultPoints ==
  { [ at |-> a, i |-> 0 ] :
      a \in { "none", "metadata", "convert_open", "convert_save", "convert_remove", "open",
              "upload", "write_metadata", "remove_source" } }
  \cup { [ at |-> a, i |-> k ] :
           a \in { "resize", "upload_variant", "remove_variant" }, k \in 1..Cardinality(VariantNames) }

\* a variant of Fail that deletes the objects the call has put
Fail_Rollback(fx, e) ==
  [ fx EXCEPT !.err = e, !.store = [ k \in DOMAIN fx.store \ Range(fx.puts) |-> fx.store[k] ] ]

\* a step fails: the ? operator returns the error, and nothing is undone
Fail(fx, e) == [ fx EXCEPT !.err = e ]

\* ByteStream put_object: the object under key is replaced
PutObject(bucket, key, c) == WriteFile(bucket, key, c)

\* upload_to_s3(file_path, key): read the file, put it
upload_to_s3(fx, d, path, key, fault) ==
  IF fx.err # "" THEN fx
  ELSE IF ~Exists(fx.wd[d], path) THEN Fail(fx, "NotFound")
  ELSE IF fault # "" THEN Fail(fx, fault)
  ELSE [ fx EXCEPT !.store = PutObject(@, key, fx.wd[d][path]), !.puts = Append(@, key) ]

\* convert_jpg_to_png(image_path): decode, save as <stem>.png, remove image_path
convert_jpg_to_png(fx, d, n, fp) ==
  LET c == fx.wd[d][n]
      output_path == WithExtension(n, PNG)
      saved == [ fx EXCEPT !.wd[d] = WriteFile(@, output_path, [ c EXCEPT !.enc = "png" ]) ]
  IN  IF fx.err # "" THEN fx
      ELSE IF ~c.img THEN Fail(fx, "Decode")
      ELSE IF fp.at \in {"convert_open", "convert_save"} THEN Fail(fx, fp.at)
      ELSE IF fp.at = "convert_remove" THEN Fail(saved, fp.at)
      ELSE [ saved EXCEPT !.wd[d] = RemoveFile(@, n) ]

(***************************************************************************)
(* The f32 arithmetic of the variant dimensions.  An f32 greater than zero *)
(* is mant * 2^exp with 2^23 <= mant < 2^24; a result is rounded to the    *)
(* nearest such number, ties to the even mantissa.  The numbers converted  *)
(* with "as f32" are below 2^24 and hence converted exactly.               *)
(***************************************************************************)
RECURSIVE Pow2(_)
Pow2(k) == IF k = 0 THEN 1 ELSE 2 * Pow2(k - 1)

RECURSIVE BitLen(_)
BitLen(v) == IF v = 0 THEN 0 ELSE 1 + BitLen(v \div 2)

F32(mant, exp) == [ mant |-> mant, exp |-> exp ]

\* q with the part that was cut off, twiceRem / (2 * den) of a unit
RoundTiesEven(q, twiceRem, den) ==
  IF twiceRem > den \/ (twiceRem = den /\ q % 2 = 1) THEN q + 1 ELSE q

\* a mantissa that rounding carried to 2^24
Normalize(q, exp) == IF q = Pow2(24) THEN F32(Pow2(23), exp + 1) ELSE F32(q, exp)

\* the quotient bit by bit, up to the 24 bits of the mantissa
RECURSIVE DivBits(_, _, _, _)
DivBits(q, r, b, exp) ==
  IF q >= Pow2(23) THEN Normalize(RoundTiesEven(q, 2 * r, b), exp)
  ELSE DivBits(2 * q + (IF 2 * r >= b THEN 1 ELSE 0), (2 * r) % b, b, exp - 1)

\* (a as f32) / (b as f32), for 0 < a < 2^24 and 0 < b < 2^24
F32Div(a, b) == DivBits(a \div b, a % b, b, 0)

\* (n as f32) * x, for 0 < n < 2^11: the product n * x.mant in two parts of
\* 12 bits, rounded to 24 bits
F32Mul(n, x) ==
  LET lowPart == n * (x.mant % 4096)
      hi == n * (x.mant \div 4096) + lowPart \div 4096
      lo == lowPart % 4096
      d == BitLen(hi) - 12
      q == hi * Pow2(12 - d) + lo \div Pow2(d)
  IN  Normalize(RoundTiesEven(q, 2 * (lo % Pow2(d)), Pow2(d)), x.exp + d)

\* x.round() as u32: to the nearest integer, a half away from zero (the
\* values of the model are far below the 2^32 - 1 at which the cast saturates)
F32RoundToU32(x) ==
  IF x.exp >= 0 THEN x.mant * Pow2(x.exp)
  ELSE IF -x.exp > 24 THEN 0
  ELSE LET p == Pow2(-x.exp) IN IF 2 * (x.mant % p) >= p THEN x.mant \div p + 1 ELSE x.mant \div p

\* x as u32: the fraction is dropped
F32ToU32(x) ==
  IF x.exp >= 0 THEN x.mant * Pow2(x.exp)
  ELSE IF -x.exp > 24 THEN 0
  ELSE x.mant \div Pow2(-x.exp)

\* resize_image: aspect_ratio = height / width in f32, and the height of the
\* variant is (width as f32 * aspect_ratio).round() as u32
VariantHeight(w, h, width) == F32RoundToU32(F32Mul(width, F32Div(h, w)))

\* VariantHeight for the sizes of the images a run can find and the widths of
\* the table, as an explicit table
FoundSizes ==
  { << e.data.w, e.data.h >> : e \in { x \in InboxUniverse \cup LeftoverUniverse : x.data.img } }
RECURSIVE HeightTable(_)
HeightTable(xs) ==
  IF xs = {} THEN << >>
  ELSE LET x == CHOOSE y \in xs : TRUE
       IN  (x :> VariantHeight(x[1][1], x[1][2], x[2])) @@ HeightTable(xs \ {x})
VariantHeights == HeightTable(FoundSizes \X { VARIANT_SETTINGS[v] : v \in VariantNames })

\* upload_s3.rs VARIANT_SETTINGS: the widths of its slice, in its order
VARIANT_WIDTHS == << 200, 400, 800, 1200 >>

\* upload_s3.rs create_image_variants: the height of a variant is
\* (height as f32 * (width as f32 / img.width() as f32)) as u32
create_image_variants_height(w, h, width) == F32ToU32(F32Mul(h, F32Div(width, w)))

\* resize_image(image_path, output_path, width): decode, resize, save
resize_image(fx, d, path, output_path, width, fault) ==
  LET c == fx.wd[d][path]
  IN  IF fx.err # "" THEN fx
      ELSE IF ~Exists(fx.wd[d], path) THEN Fail(fx, "NotFound")
      ELSE IF ~c.img THEN Fail(fx, "Decode")
      ELSE IF fault # "" THEN Fail(fx, fault)
      ELSE [ fx EXCEPT !.wd["images"] =
               WriteFile(@, output_path,
                         [ c EXCEPT !.w = width,
                                    !.h = IF << << c.w, c.h >>, width >> \in DOMAIN VariantHeights
                                            THEN VariantHeights[<< << c.w, c.h >>, width >>]
                                            ELSE VariantHeight(c.w, c.h, width),
                                    !.enc = "variant" ]) ]

(***************************************************************************)
(* The document write_image_metadata writes: the text of its format!, cut  *)
(* at the places of the values.                                            *)
(***************************************************************************)
DocUrl ==
  <<"\n","#"," ","h","t","t","p","s",":","/","/","s","3",".","a","m","a","z","o","n","a","w","s",
    ".","c","o","m","/","d","i","g","i","t","a","l","g","o","v","/">>
DocDot ==
  <<".">>
DocShortcode ==
  <<"\n","#"," ","I","m","a","g","e"," ","s","h","o","r","t","c","o","d","e",":"," ","{","{"," ",
    "i","m","g"," ","s","r","c","=","\"">>
DocDate ==
  <<"\""," ","}","}","\n","d","a","t","e"," "," "," "," "," ",":"," "," ">>
DocUid ==
  <<"\n","u","i","d"," "," "," "," "," "," ",":"," "," ">>
DocWidth ==
  <<"\n","w","i","d","t","h"," "," "," "," ",":"," "," ">>
DocHeight ==
  <<"\n","h","e","i","g","h","t"," "," "," ",":"," "," ">>
DocFormat ==
  <<"\n","f","o","r","m","a","t"," "," "," ",":"," "," ">>
DocTail ==
  <<"\n","\n","#"," ","R","E","Q","U","I","R","E","D"," ","a","l","t","e","r","n","a","t","i","v",
    "e"," ","t","e","x","t"," ","f","o","r"," ","a","c","c","e","s","s","i","b","i","l","i","t",
    "y",".","\n","#"," ","K","e","e","p"," ","w","i","t","h","i","n"," ","1","5","0"," ","c","h",
    "a","r","a","c","t","e","r","s","."," ","h","t","t","p","s",":","/","/","c","a","p","i","t",
    "a","l","i","z","e","m","y","t","i","t","l","e",".","c","o","m","/","c","h","a","r","a","c",
    "t","e","r","-","c","o","u","n","t","e","r","/"," ","w","i","l","l"," ","c","o","u","n","t",
    " ","c","h","a","r","a","c","t","e","r","s",".","\n","a","l","t"," "," "," "," "," "," ",":",
    " "," ","\"","\"","\n","\n","#"," ","C","a","p","t","i","o","n"," ","t","e","x","t"," ","a",
    "p","p","e","a","r","s"," ","b","e","l","o","w"," ","t","h","e"," ","i","m","a","g","e",";",
    " ","u","s","u","a","l","l","y"," ","t","h","e"," ","a","t","t","r","i","b","u","t","i","o",
    "n"," ","f","o","r"," ","s","t","o","c","k"," ","i","m","a","g","e","s",".","\n","#"," ","M",
    "u","s","t"," ","b","e"," ","d","i","f","f","e","r","e","n","t"," ","f","r","o","m"," ","t",
    "h","e"," ","a","l","t"," ","t","e","x","t",".","\n","c","a","p","t","i","o","n"," "," ",":",
    " "," ","\"","\"","\n","\n","#"," ","C","r","e","d","i","t"," ","t","e","x","t"," ","a","p",
    "p","e","a","r","s"," ","a","f","t","e","r"," ","t","h","e"," ","c","a","p","t","i","o","n",
    " ","t","e","x","t",","," ","s","e","p","a","r","a","t","e","d"," ","b","y"," ","a","n"," ",
    "m","-","d","a","s","h",".","\n","#"," ","E","x","a","m","p","l","e"," ","h","t","t","p","s",
    ":","/","/","d","i","g","i","t","a","l",".","g","o","v","/","2","0","2","3","/","1","2","/",
    "0","8","/","m","a","k","i","n","g","-","g","s","a","-","p","u","b","l","i","c","-","a","r",
    "t","-","c","o","l","l","e","c","t","i","o","n","-","m","o","r","e","-","a","c","c","e","s",
    "s","i","b","l","e","/"," ","\n","c","r","e","d","i","t"," "," "," ",":"," "," ","\"","\"",
    "\n">>

\* Local::now().format("%Y-%m-%d %H:%M:%S -0400"): digits, hyphens, colons and
\* spaces; one time stands for all
Timestamp ==
  <<"2","0","2","4","-","0","1","-","0","2"," ","0","3",":","0","4",":","0","5"," ","-","0","4","0","0">>

\* the text of data/images/<uid>.yml
ImageMetadataDocument(uid, width, height, format) ==
  DocUrl \o uid \o DocDot \o format \o DocShortcode \o uid \o DocDate \o Timestamp
    \o DocUid \o uid \o DocWidth \o Decimal(width) \o DocHeight \o Decimal(height)
    \o DocFormat \o format \o DocTail

\* a variant of write_image_metadata that writes the record also when the
\* upload of the original failed
write_image_metadata_AfterFailedUpload(fx, uid, width, height, format, fault) ==
  IF fx.err \notin {"", "upload"} THEN fx
  ELSE IF fault # "" THEN [ fx EXCEPT !.err = fault ]
  ELSE [ fx EXCEPT !.mi = [ m \in DOMAIN fx.mi \cup {uid} |->
                             IF m = uid
                               THEN [ date |-> "now", uid |-> uid, width |-> width, height |-> height,
                                      format |-> format ]
                               ELSE fx.mi[m] ] ]

\* write_image_metadata(uid, width, height, format): data/images/<uid>.yml.
\* The record holds the fields the document gives a value; date is the time
\* of the call, "now".
write_image_metadata(fx, uid, width, height, format, fault) ==
  IF fx.err # "" THEN fx
  ELSE IF fault # "" THEN Fail(fx, fault)
  ELSE [ fx EXCEPT !.mi = WriteFile(@, uid, [ date |-> "now", uid |-> uid, width |-> width, height |-> height, format |-> format ]) ]

\* a variant of write_file_metadata that writes the record of an image
write_file_metadata_AsImage(fx, uid, format, fault) ==
  IF fx.err # "" THEN fx
  ELSE IF fault # "" THEN Fail(fx, fault)
  ELSE [ fx EXCEPT !.mi = WriteFile(@, uid, [ date |-> "now", uid |-> uid, width |-> 0, height |-> 0,
                                              format |-> format ]) ]

\* write_file_metadata(uid, format): data/files/<uid>.yml
write_file_metadata(fx, uid, format, fault) ==
  IF fx.err # "" THEN fx
  ELSE IF fault # "" THEN Fail(fx, fault)
  ELSE [ fx EXCEPT !.mf = WriteFile(@, uid, [ date |-> "now", uid |-> uid, format |-> format ]) ]

\* a variant of VariantFilename with another separator
VariantFilename_Dash(file_stem, width, extension) ==
  file_stem \o <<"-","w">> \o Decimal(width) \o <<".">> \o extension

\* the name of the variant file and the key of the variant
VariantFilename(file_stem, width, extension) ==
  file_stem \o <<"_","w">> \o Decimal(width) \o <<".">> \o extension

\* fs::remove_file(output_path)? at the end of an iteration of the variant loop
RemoveVariant(fx, output_path, fault) ==
  IF fx.err # "" THEN fx
  ELSE IF fault # "" THEN Fail(fx, fault)
  ELSE [ fx EXCEPT !.wd["images"] = RemoveFile(@, output_path) ]

At(fp, a, i) == IF fp.at = a /\ fp.i = i THEN a ELSE ""

\* the loop over VARIANT_SETTINGS.iter(), from iteration i on
RECURSIVE VariantLoop(_, _, _, _, _, _, _, _)
VariantLoop(fx, d, file_path, file_stem, extension, fp, order, i) ==
  IF fx.err # "" \/ i > Len(order) THEN fx
  ELSE LET width == VARIANT_SETTINGS[order[i]]
           output_filename == VariantFilename(file_stem, width, extension)
           resized == resize_image(fx, d, file_path, output_filename, width, At(fp, "resize", i))
           uploaded == upload_to_s3(resized, "images", output_filename,
                                    IMAGE_S3_PREFIX \o output_filename, At(fp, "upload_variant", i))
           removed == RemoveVariant(uploaded, output_filename, At(fp, "remove_variant", i))
       IN  VariantLoop(removed, d, file_path, file_stem, extension, fp, order, i + 1)

\* a variant of NeedsConversion that compares with the upper-case extensions
NeedsConversion_Upper(n) == Extension(n) \in { <<"J","P","G">>, <<"J","P","E","G">> }

\* the extensions convert_jpg_to_png is called for (compared as they are)
NeedsConversion(n) == Extension(n) \in {JPG, JPEG}

\* the image branch
ProcessImage(fx0, d, n, fp, order) ==
  LET sanitized_name == sanitize_filename(n)
      checked == IF ~Exists(fx0.wd[d], n) THEN Fail(fx0, "NotFound")
                 ELSE IF fp.at = "metadata" THEN Fail(fx0, fp.at)
                 ELSE fx0
      converted == IF NeedsConversion(n) THEN convert_jpg_to_png(checked, d, n, fp) ELSE checked
      file_path == IF NeedsConversion(n) THEN WithExtension(n, PNG) ELSE n
      file_stem == FileStem(sanitized_name)
      extension == Extension(file_path)
      img == converted.wd[d][file_path]
      opened == IF converted.err # "" THEN converted
                ELSE IF ~img.img THEN Fail(converted, "Decode")
                ELSE IF fp.at = "open" THEN Fail(converted, fp.at)
                ELSE converted
      original_s3_key == IMAGE_S3_PREFIX \o file_stem \o <<".">> \o extension
      uploaded == upload_to_s3(opened, d, file_path, original_s3_key, At(fp, "upload", 0))
      described == write_image_metadata(uploaded, file_stem, img.w, img.h, extension, At(fp, "write_metadata", 0))
  IN  VariantLoop([ described EXCEPT !.looped = (described.err = "") ],
                  d, file_path, file_stem, extension, fp, order, 1)

\* the branch of the other files
ProcessGeneric(fx0, d, n, fp) ==
  LET sanitized_name == sanitize_filename(n)
      s3_key == STATIC_S3_PREFIX \o sanitized_name
      uploaded == upload_to_s3(fx0, d, n, s3_key, At(fp, "upload", 0))
  IN  write_file_metadata(uploaded, FileStem(sanitized_name), Extension(n), At(fp, "write_metadata", 0))

process_and_upload_file(fx0, d, n, fp, order) ==
  IF is_image(n) THEN ProcessImage(fx0, d, n, fp, order) ELSE ProcessGeneric(fx0, d, n, fp)


(***************************************************************************)
(* process_and_upload_all                                                  *)
(***************************************************************************)
\* the filter of the listing of a working directory
WorkingFilter(dir, n) == dir[n].kind = "file" /\ is_valid_file_type(n)

\* the end of the inner loop: the next directory, or the cleanup
Advance(left) ==
  IF left # {} THEN pc' = "loop" /\ UNCHANGED dirIdx
  ELSE IF dirIdx < Len(Dirs) THEN pc' = "list" /\ dirIdx' = dirIdx + 1
  ELSE pc' = "cleanup" /\ UNCHANGED dirIdx

\* one iteration of the loop over the two working directories, up to its
\* inner loop: skip a missing directory, list it, count its valid files
ListDir ==
  /\ pc = "list"
  /\ phases' = phases \cup {"ProcessEach"}
  /\ LET d == Dirs[dirIdx]
     IN  \/ /\ ~wexists[d]
            /\ Advance({})
            /\ UNCHANGED << files, total_count, result, faults >>
         \/ /\ wexists[d]
            /\ files' = { n \in DOMAIN wd[d] : WorkingFilter(wd[d], n) }
            /\ total_count' = total_count + Cardinality(files')
            /\ Advance(files')
            /\ UNCHANGED << result, faults >>
         \/ /\ wexists[d]
            /\ faults < MaxFaults
            /\ faults' = faults + 1
            /\ Abort("read_dir working")
            /\ UNCHANGED << files, total_count, dirIdx >>
  /\ UNCHANGED << inboxExists, inbox, inbox0, wexists0, wd0, wexists, wd, store, metaImages, metaFiles, pending,
                  processed_count, variantOrder, hist, cleanupFailed >>
  /\ UNCHANGED << mirrorVars, fnVars >>

\* a variant of AfterFile in which the error of a file ends the run
AfterFile_Propagate(ok, e, left) ==
  IF ok THEN UNCHANGED result /\ Advance(left)
  ELSE Abort(e) /\ UNCHANGED dirIdx

\* the two arms of the match on the result of process_and_upload_file: the
\* loop goes on after Ok and after Err alike
AfterFile(ok, e, left) ==
  /\ UNCHANGED result
  /\ Advance(left)

\* a variant of CountProcessed that counts every file the loop handled
CountProcessed_All(ok) == processed_count + 1

\* processed_count after the match
CountProcessed(ok) == IF ok THEN processed_count + 1 ELSE processed_count

\* the Ok arm removes the file it processed, an error of the removal being
\* logged only
RemoveProcessed(dir, n, fault) == IF Exists(dir, n) /\ ~fault THEN RemoveFile(dir, n) ELSE dir

\* the iteration orders to consider for a call: the order is fixed once
\* VARIANT_SETTINGS has been used, and it plays no part in a call that does not
\* reach the variant loop
OrdersFor(n, fp) ==
  IF variantOrder # <<>> THEN {variantOrder}
  ELSE IF is_image(n) /\ fp.at \in {"none", "remove_source", "resize", "upload_variant", "remove_variant"}
    THEN IterationOrders
  ELSE {CHOOSE o \in IterationOrders : TRUE}

\* the faults that the steps of a call for n can meet
FaultsOf(n) ==
  LET image == is_image(n)
      jpg == NeedsConversion(n)
  IN  { fp \in FaultPoints :
          \/ fp.at \in {"none", "upload", "write_metadata", "remove_source"}
          \/ image /\ fp.at \in {"metadata", "open", "resize", "upload_variant", "remove_variant"}
          \/ image /\ jpg /\ fp.at \in {"convert_open", "convert_save", "convert_remove"} }

\* one iteration of the inner loop: process_and_upload_file and the match on
\* its result.  The order of the listing is the one read_dir gave.
ProcessOne ==
  /\ pc = "loop"
  /\ \E n \in files :
       \E fp \in (IF faults < MaxFaults THEN FaultsOf(n) ELSE {NoFault}) :
         \E order \in OrdersFor(n, fp) :
           LET d == Dirs[dirIdx]
               fx0 == [ wd |-> wd, store |-> store, mi |-> metaImages, mf |-> metaFiles,
                        puts |-> <<>>, err |-> "", looped |-> FALSE ]
               fx == process_and_upload_file(fx0, d, n, fp, order)
               ok == fx.err = ""
               rmFault == fp.at = "remove_source"
           IN  /\ fp.at \notin {"none", "remove_source"} => fx.err = fp.at
               /\ rmFault => ok /\ Exists(fx.wd[d], n)
               /\ faults' = IF fp.at # "none" THEN faults + 1 ELSE faults
               /\ wd' = IF ok THEN [ fx.wd EXCEPT ![d] = RemoveProcessed(@, n, rmFault) ] ELSE fx.wd
               /\ processed_count' = CountProcessed(ok)
               /\ store' = fx.store
               /\ metaImages' = fx.mi
               /\ metaFiles' = fx.mf
               /\ variantOrder' = IF fx.looped THEN order ELSE variantOrder
               /\ hist' = Append(hist, [ dir |-> d, name |-> n, ok |-> ok, err |-> fx.err, puts |-> fx.puts,
                                         before |-> IF Exists(wd[d], n) THEN <<wd[d][n]>> ELSE <<>> ])
               /\ files' = files \ {n}
               /\ AfterFile(ok, fx.err, files')
  /\ UNCHANGED << inboxExists, inbox, inbox0, wexists0, wd0, wexists, pending, total_count, phases, cleanupFailed >>
  /\ UNCHANGED << mirrorVars, fnVars >>

\* a variant of RemoveTree that keeps the trees when a file failed
RemoveTree_UnlessFailed(exists, fault) == exists /\ (fault \/ processed_count # total_count)

\* fs::remove_dir_all of a working tree that exists, an error being logged only
RemoveTree(exists, fault) == exists /\ fault

\* a variant of CleanupResult in which an error of the cleanup is propagated
CleanupResult_Propagate(failed) ==
  IF failed # {} THEN ErrorResult("remove_dir_all")
  ELSE IF total_count = 0 THEN NoValidFiles ELSE Summary(processed_count, total_count)

\* what process_and_upload_all returns after the cleanup loop, whose errors
\* are printed and dropped
CleanupResult(failed) ==
  IF total_count = 0 THEN NoValidFiles ELSE Summary(processed_count, total_count)

\* the cleanup loop and the Ok value
CleanupAndSummarize ==
  /\ pc = "cleanup"
  /\ phases' = phases \cup {"Cleanup", "Summarize"}
  /\ \E fault \in [ Range(Dirs) -> BOOLEAN ] :
       LET n == Cardinality({ d \in Range(Dirs) : fault[d] })
       IN  /\ \A d \in Range(Dirs) : fault[d] => wexists[d]
           /\ faults + n <= MaxFaults
           /\ faults' = faults + n
           /\ wexists' = [ d \in Range(Dirs) |-> RemoveTree(wexists[d], fault[d]) ]
           /\ wd' = [ d \in Range(Dirs) |-> IF wexists'[d] THEN wd[d] ELSE EmptyDir ]
           /\ cleanupFailed' = { d \in Range(Dirs) : fault[d] }
           /\ result' = CleanupResult(cleanupFailed')
  /\ pc' = "done"
  /\ UNCHANGED << inboxExists, inbox, inbox0, wexists0, wd0, store, metaImages, metaFiles, pending, dirIdx, files,
                  total_count, processed_count, variantOrder, hist >>
  /\ UNCHANGED << mirrorVars, fnVars >>

Next == PrepareBegin \/ MoveOne \/ ListDir \/ ProcessOne \/ CleanupAndSummarize

Spec == Init /\ [][Next]_vars

\* process_and_upload_all has not been called
PipelineIdle ==
  /\ inboxExists = FALSE
  /\ inbox = EmptyDir
  /\ inbox0 = EmptyDir
  /\ wexists0 = [ d \in Range(Dirs) |-> FALSE ]
  /\ wd0 = [ d \in Range(Dirs) |-> EmptyDir ]
  /\ wexists = [ d \in Range(Dirs) |-> FALSE ]
  /\ wd = [ d \in Range(Dirs) |-> EmptyDir ]
  /\ store = EmptyDir
  /\ metaImages = [ u \in {} |-> 0 ]
  /\ metaFiles = [ u \in {} |-> 0 ]
  /\ pc = "start"
  /\ pending = {}
  /\ dirIdx = 1
  /\ files = {}
  /\ total_count = 0
  /\ processed_count = 0
  /\ result = <<>>
  /\ variantOrder = <<>>
  /\ faults = 0
  /\ hist = <<>>
  /\ phases = {}
  /\ cleanupFailed = {}


(***************************************************************************)
(* The mirror sync: mkdir_and_download_all_images_from_s3 of lib.rs with   *)
(* S3Mount of mount_s3.rs.  A document is the sequence of its characters,  *)
(* so that parse_image_yaml is computed on what the file holds.            *)
(***************************************************************************)
\* the largest number of documents in IMAGE_DATA_DIR
MaxDocs == 2

Document(readable, content) == [ readable |-> readable, content |-> content ]

\* what IMAGE_DATA_DIR can hold: records as the pipeline writes them (with
\* the fields in its order and its padding), records that lack a field, a
\* file that cannot be read, a file of another extension, and a document
\* without uid field in which another key ends in "uid"
DocUniverse ==
  { [ name |-> <<"a",".","y","m","l">>,
      doc |-> Document(TRUE, <<"u","i","d",":"," ","a","\n","f","o","r","m","a","t",":"," ","p","n","g","\n">>) ],
    [ name |-> <<"b",".","y","m","l">>,
      doc |-> Document(TRUE, <<"u","i","d"," "," ",":"," "," ","b","\n","w","i","d","t","h",":"," ","3","\n","f","o","r","m","a","t"," "," ",":"," "," ","g","i","f","\n">>) ],
    [ name |-> <<"a","2",".","y","m","l">>,
      doc |-> Document(TRUE, <<"u","i","d",":"," ","a","\n","f","o","r","m","a","t",":"," ","p","n","g","\n">>) ],
    [ name |-> <<"c",".","y","m","l">>,
      doc |-> Document(TRUE, <<"u","i","d",":"," ","c","\n">>) ],
    [ name |-> <<"d",".","y","m","l">>,
      doc |-> Document(TRUE, <<"f","o","r","m","a","t",":"," ","p","n","g","\n">>) ],
    [ name |-> <<"e",".","y","m","l">>,
      doc |-> Document(FALSE, <<"u","i","d",":"," ","e","\n","f","o","r","m","a","t",":"," ","p","n","g","\n">>) ],
    [ name |-> <<"f",".","t","x","t">>,
      doc |-> Document(TRUE, <<"u","i","d",":"," ","f","\n","f","o","r","m","a","t",":"," ","p","n","g","\n">>) ],
    [ name |-> <<"g",".","y","m","l">>,
      doc |-> Document(TRUE, <<"g","u","i","d",":"," ","g","\n","f","o","r","m","a","t",":"," ","p","n","g","\n">>) ] }

\* \s of the regex crate and char::is_whitespace of str::trim
IsSpace(c) == c \in { " ", "\n", "\t" }

\* the first position from i on that holds no white space (Len + 1 if none)
RECURSIVE SkipSpaces(_, _)
SkipSpaces(content, i) ==
  IF i > Len(content) \/ ~IsSpace(content[i]) THEN i ELSE SkipSpaces(content, i + 1)

\* the last position in lo..hi that holds no newline (0 if none)
RECURSIVE LastNonNewline(_, _, _)
LastNonNewline(content, lo, hi) ==
  IF hi < lo THEN 0 ELSE IF content[hi] # "\n" THEN hi ELSE LastNonNewline(content, lo, hi - 1)

\* the end of the line position i is in: the last position before the next
\* newline
RECURSIVE LineEnd(_, _)
LineEnd(content, i) ==
  IF i + 1 > Len(content) \/ content[i + 1] = "\n" THEN i ELSE LineEnd(content, i + 1)

\* str::trim
RECURSIVE TrimStart(_)
TrimStart(t) == IF t # <<>> /\ IsSpace(Head(t)) THEN TrimStart(Tail(t)) ELSE t
RECURSIVE TrimEnd(_)
TrimEnd(t) == IF t # <<>> /\ IsSpace(t[Len(t)]) THEN TrimEnd(SubSeq(t, 1, Len(t) - 1)) ELSE t
Trim(t) == TrimEnd(TrimStart(t))

\* the match of  <word>\s*:\s*([^\n]+)  that begins at position i: where its
\* group begins, 0 if there is no match at i.  \s* takes all the white space
\* it can, newlines included, and gives back what the group needs: a first
\* character that is no newline.
GroupStartAt(content, word, i) ==
  IF i + Len(word) - 1 > Len(content) \/ SubSeq(content, i, i + Len(word) - 1) # word THEN 0
  ELSE LET colon == SkipSpaces(content, i + Len(word))
       IN  IF colon > Len(content) \/ content[colon] # ":" THEN 0
           ELSE LET k == SkipSpaces(content, colon + 1)
                IN  IF k <= Len(content) THEN k ELSE LastNonNewline(content, colon + 1, Len(content))

\* Regex::captures: the leftmost match, from position i on; the trimmed
\* group as << value >>, << >> for None
Captures(content, word, i) ==
  LET starts == { j \in i..Len(content) : GroupStartAt(content, word, j) # 0 }
  IN  IF starts = {} THEN << >>
      ELSE LET g == GroupStartAt(content, word, CHOOSE j \in starts : \A k \in starts : j <= k)
           IN  << Trim(SubSeq(content, g, LineEnd(content, g))) >>

\* mount_s3.rs parse_image_yaml: << << uid, format >> >>, << >> for None
parse_image_yaml(content) ==
  LET uid == Captures(content, <<"u","i","d">>, 1)
      format == Captures(content, <<"f","o","r","m","a","t">>, 1)
  IN  IF uid # << >> /\ format # << >> THEN << << uid[1], format[1] >> >> ELSE << >>

\* a variant of ImageMetadata whose key lacks the dot
ImageMetadata_NoDot(uid, format) == [ key |-> uid \o format, uid |-> uid, format |-> format ]

\* ImageMetadata { key: format!("{}.{}", uid, format), uid, format }
ImageMetadata(uid, format) == [ key |-> uid \o <<".">> \o format, uid |-> uid, format |-> format ]

\* what the loop of get_image_metadata pushes for the entry name of dir
EntryOf(dir, name) ==
  IF Extension(name) # <<"y","m","l">> THEN << >>
  ELSE IF ~dir[name].readable THEN << >>
  ELSE LET parsed == parse_image_yaml(dir[name].content)
       IN  IF parsed = << >> THEN << >> ELSE << ImageMetadata(parsed[1][1], parsed[1][2]) >>

\* the concatenation of what the entries of a listing push
RECURSIVE Pushed(_, _)
Pushed(dir, listing) ==
  IF listing = << >> THEN << >> ELSE EntryOf(dir, Head(listing)) \o Pushed(dir, Tail(listing))

\* the orders in which read_dir can give the names of a directory
Listings(dir) ==
  { l \in [ 1..Cardinality(DOMAIN dir) -> DOMAIN dir ] : \A i, j \in DOMAIN l : l[i] = l[j] => i = j }

\* mount_s3.rs get_image_metadata: the vectors it can return; the empty one
\* when read_dir fails
get_image_metadata(dir, fault) ==
  IF fault THEN { << >> } ELSE { Pushed(dir, l) : l \in Listings(dir) }

\* the directory with the documents of a set of entries
DocDir(es) == [ n \in { e.name : e \in es } |-> (CHOOSE e \in es : e.name = n).doc ]

\* the keys of the entries get_image_metadata can return for a directory
KeysOf(dir) == { EntryOf(dir, n)[1].key : n \in { m \in DOMAIN dir : EntryOf(dir, m) # << >> } }

\* the content of a file of the mirror: where it comes from, and whether the
\* whole body is in it
Local(from, whole) == [ from |-> from, whole |-> whole ]

InitMirror ==
  /\ PipelineIdle
  /\ FnIdle
  /\ \E es \in SUBSET DocUniverse :
       /\ Cardinality(es) <= MaxDocs
       /\ docs = DocDir(es)
  /\ remote \in SUBSET KeysOf(docs)
  /\ \E present \in SUBSET KeysOf(docs) : mirror = [ k \in present |-> Local("earlier", TRUE) ]
  /\ mirrorExists \in BOOLEAN
  /\ DOMAIN mirror # {} => mirrorExists
  /\ mpc = "idle"
  /\ mkeys = << >>
  /\ ki = 0
  /\ mresult = "none"
  /\ mfaults = 0
  /\ runs = 0
  /\ mlog = << >>

\* a record of the history
Logged(op, key, existed, got, ok, err) ==
  [ run |-> runs + 1, op |-> op, key |-> key, existed |-> existed, got |-> got, ok |-> ok, err |-> err ]

\* a variant of SyncResult that is true only if every download succeeded
SyncResult_AllDownloaded(failed) == ~failed

\* what the host operation returns once the loop over the entries has ended:
\* Ok(()) whatever the downloads returned, hence true
SyncResult(failed) == TRUE

\* the host operation returns
Return(value) ==
  /\ mresult' = value
  /\ runs' = runs + 1
  /\ mpc' = "idle"

\* the entries of this run whose download failed, with the one just handled
FailedInRun(last) ==
  ~last.ok \/ \E i \in DOMAIN mlog : mlog[i].run = runs + 1 /\ mlog[i].op = "download_file" /\ ~mlog[i].ok

\* the host operation up to its loop: S3Mount::new (which returns Ok in every
\* case), create_local_dir, get_image_metadata
MirrorBegin ==
  /\ mpc = "idle"
  /\ runs < MaxRuns
  /\ \E fault \in {"none", "create_local_dir", "read_dir"} :
       /\ fault # "none" => mfaults < MaxFaults
       /\ mfaults' = IF fault = "none" THEN mfaults ELSE mfaults + 1
       /\ IF fault = "create_local_dir"
            THEN /\ Return(FALSE)
                 /\ mlog' = Append(mlog, Logged("create_local_dir", << >>, mirrorExists, FALSE, FALSE, fault))
                 /\ mkeys' = << >>
                 /\ ki' = 0
                 /\ UNCHANGED mirrorExists
            ELSE /\ mirrorExists' = TRUE
                 /\ mlog' = Append(mlog, Logged("create_local_dir", << >>, mirrorExists, FALSE, TRUE, ""))
                 /\ mkeys' \in get_image_metadata(docs, fault = "read_dir")
                 /\ ki' = 1
                 /\ IF mkeys' = << >>
                      THEN Return(SyncResult(FALSE))
                      ELSE mresult' = "none" /\ mpc' = "loop" /\ UNCHANGED runs
  /\ UNCHANGED << docs, remote, mirror, pipelineVars, fnVars >>

\* Path::exists of the local path of a key
ExistsLocal(m, key) == key \in DOMAIN m

\* the steps of download_file that can fail; a failing fs::write can leave
\* a part of the body in the file, or no file
DownloadFaults == { "none", "create_dir_all", "get_object", "collect", "write_partial", "write_nothing" }

Downloaded(m, got, ok, err) == [ mirror |-> m, got |-> got, ok |-> ok, err |-> err ]

\* a variant of download_file without the check of the local path
download_file_NoSkip(m, key, fault) ==
  IF fault = "create_dir_all" THEN Downloaded(m, FALSE, FALSE, fault)
  ELSE IF key \notin remote THEN Downloaded(m, TRUE, FALSE, "NoSuchKey")
  ELSE IF fault \in {"get_object", "collect"} THEN Downloaded(m, TRUE, FALSE, fault)
  ELSE IF fault = "write_nothing" THEN Downloaded(m, TRUE, FALSE, fault)
  ELSE IF fault = "write_partial" THEN Downloaded(WriteFile(m, key, Local("remote", FALSE)), TRUE, FALSE, fault)
  ELSE Downloaded(WriteFile(m, key, Local("remote", TRUE)), TRUE, TRUE, "")

\* a variant of download_file that creates the local file before it sends the
\* get_object, so that a failing fetch leaves an empty file
download_file_CreateFirst(m, key, fault) ==
  IF ExistsLocal(m, key) THEN Downloaded(m, FALSE, TRUE, "")
  ELSE IF fault = "create_dir_all" THEN Downloaded(m, FALSE, FALSE, fault)
  ELSE IF key \notin remote THEN Downloaded(WriteFile(m, key, Local("remote", FALSE)), TRUE, FALSE, "NoSuchKey")
  ELSE IF fault \in {"get_object", "collect"}
    THEN Downloaded(WriteFile(m, key, Local("remote", FALSE)), TRUE, FALSE, fault)
  ELSE IF fault = "write_nothing" THEN Downloaded(m, TRUE, FALSE, fault)
  ELSE IF fault = "write_partial" THEN Downloaded(WriteFile(m, key, Local("remote", FALSE)), TRUE, FALSE, fault)
  ELSE Downloaded(WriteFile(m, key, Local("remote", TRUE)), TRUE, TRUE, "")

\* mount_s3.rs download_file(key, local_path): the mirror after the call,
\* whether get_object was sent, and the result
download_file(m, key, fault) ==
  IF ExistsLocal(m, key) THEN Downloaded(m, FALSE, TRUE, "")
  ELSE IF fault = "create_dir_all" THEN Downloaded(m, FALSE, FALSE, fault)
  ELSE IF key \notin remote THEN Downloaded(m, TRUE, FALSE, "NoSuchKey")
  ELSE IF fault \in {"get_object", "collect"} THEN Downloaded(m, TRUE, FALSE, fault)
  ELSE IF fault = "write_nothing" THEN Downloaded(m, TRUE, FALSE, fault)
  ELSE IF fault = "write_partial" THEN Downloaded(WriteFile(m, key, Local("remote", FALSE)), TRUE, FALSE, fault)
  ELSE Downloaded(WriteFile(m, key, Local("remote", TRUE)), TRUE, TRUE, "")

\* one iteration of the loop over the entries: download_file, its error
\* printed and dropped; after the last entry the operation returns
DownloadOne ==
  /\ mpc = "loop"
  /\ \E fault \in (IF mfaults < MaxFaults THEN DownloadFaults ELSE {"none"}) :
       LET key == mkeys[ki].key
           r == download_file(mirror, key, fault)
           rec == Logged("download_file", key, ExistsLocal(mirror, key), r.got, r.ok, r.err)
       IN  /\ fault # "none" => r.err = fault
           /\ mfaults' = IF fault = "none" THEN mfaults ELSE mfaults + 1
           /\ mirror' = r.mirror
           /\ mlog' = Append(mlog, rec)
           /\ ki' = ki + 1
           /\ IF ki = Len(mkeys)
                THEN Return(SyncResult(FailedInRun(rec)))
                ELSE UNCHANGED << mresult, runs, mpc >>
  /\ UNCHANGED << docs, remote, mirrorExists, mkeys, pipelineVars, fnVars >>

NextMirror == MirrorBegin \/ DownloadOne

SpecMirror == InitMirror /\ [][NextMirror]_vars


(***************************************************************************)
(* The functions of the program, applied to arguments drawn from bounded    *)
(* sets: sanitize_filename (once and to its own result), the two           *)
(* classifiers, and the iteration of VARIANT_SETTINGS in several runs.     *)
(***************************************************************************)
\* the strings over alphabet of length at most n
StringsUpTo(alphabet, n) == UNION { [ 1..k -> alphabet ] : k \in 0..n }

\* the characters of the names handed to sanitize_filename: letters of both
\* cases, an accented letter, a digit, the space, the three characters kept
\* as they are and one that is dropped
SanitizeAlphabet == { "A", "b", "É", "7", " ", "-", "_", ".", "#" }

\* the extensions of the names handed to the classifiers: those of the two
\* tables, in lower and in upper case, and others
ExtensionCandidates ==
  ValidExtensions
  \cup { [ i \in DOMAIN e |-> IF e[i] \in Range(Lower) THEN Upper[CHOOSE j \in DOMAIN Lower : Lower[j] = e[i]] ELSE e[i] ] :
           e \in ValidExtensions }
  \cup { <<"P","n","g">>, <<"m","d">>, <<"e","x","e">>, <<"y","m","l">>, <<"s","v","g">>, <<"t","i","f">>,
         <<"p","n">>, <<"p","n","g","x">>, <<"j","p","e">>, <<"z">>, <<>> }

\* an argument: the function it is for, and a name made of a stem and,
\* after a dot, an extension
Arg(f, stem, dot, ext) == [ f |-> f, stem |-> stem, dot |-> dot, ext |-> ext ]
NameOf(a) == IF a.dot THEN a.stem \o <<".">> \o a.ext ELSE a.stem

\* an image of w x h pixels, and for resize_image the width of the variant
Sized(f, w, h, width) == [ f |-> f, w |-> w, h |-> h, width |-> width ]

\* the sizes of the images handed to the computations of the variant
\* dimensions: every size up to MaxSide x MaxSide, and the sizes of the
\* images of the inbox
ImageSizes == ((1..MaxSide) \X (1..MaxSide)) \cup FoundSizes

FnArgs ==
  { Arg("sanitize_filename", x, FALSE, <<>>) : x \in StringsUpTo(SanitizeAlphabet, MaxLen) }
  \cup { Arg("classify", x, FALSE, <<>>) : x \in StringsUpTo({"a", "."}, MaxStem) }
  \cup { Arg("classify", x, TRUE, e) : x \in StringsUpTo({"a", "."}, MaxStem), e \in ExtensionCandidates }
  \cup { Arg("VARIANT_SETTINGS.iter", <<>>, FALSE, <<>>) }
  \cup { Sized("resize_image", s[1], s[2], VARIANT_SETTINGS[v]) : s \in ImageSizes, v \in VariantNames }
  \cup { Sized("create_image_variants", s[1], s[2], 0) : s \in ImageSizes }

InitFn ==
  /\ PipelineIdle
  /\ MirrorIdle
  /\ fn = "none"
  /\ arg \in FnArgs
  /\ ret = <<>>

\* sanitize_filename(arg)
ApplySanitize ==
  /\ fn = "none"
  /\ arg.f = "sanitize_filename"
  /\ fn' = arg.f
  /\ ret' = << sanitize_filename(NameOf(arg)) >>
  /\ UNCHANGED << arg, pipelineVars, mirrorVars >>

\* sanitize_filename of the value sanitize_filename returned
ApplySanitizeAgain ==
  /\ fn = "sanitize_filename"
  /\ Len(ret) = 1
  /\ ret' = Append(ret, sanitize_filename(ret[1]))
  /\ UNCHANGED << fn, arg, pipelineVars, mirrorVars >>

\* is_valid_file_type(arg) and is_image(arg)
ApplyClassify ==
  /\ fn = "none"
  /\ arg.f = "classify"
  /\ fn' = arg.f
  /\ ret' = << [ valid |-> is_valid_file_type(NameOf(arg)), image |-> is_image(NameOf(arg)) ] >>
  /\ UNCHANGED << arg, pipelineVars, mirrorVars >>

\* the widths in the order VARIANT_SETTINGS.iter() gives them in a new
\* process: the table is a HashMap, built once per process with the hasher
\* keys of that process, and its iteration order follows them
IterateVariants ==
  /\ arg.f = "VARIANT_SETTINGS.iter"
  /\ Len(ret) < MaxRuns
  /\ fn' = arg.f
  /\ \E order \in IterationOrders :
       ret' = Append(ret, [ i \in DOMAIN order |-> VARIANT_SETTINGS[order[i]] ])
  /\ UNCHANGED << arg, pipelineVars, mirrorVars >>

\* the size resize_image hands to resize_exact for an image of arg.w x arg.h
\* and the width arg.width
ApplyResize ==
  /\ fn = "none"
  /\ arg.f = "resize_image"
  /\ fn' = arg.f
  /\ ret' = << [ width |-> arg.width, height |-> VariantHeight(arg.w, arg.h, arg.width) ] >>
  /\ UNCHANGED << arg, pipelineVars, mirrorVars >>

\* the sizes create_image_variants hands to resize_exact for an image of
\* arg.w x arg.h, one for each width of its table, in the order of the table
ApplyCreateVariants ==
  /\ fn = "none"
  /\ arg.f = "create_image_variants"
  /\ fn' = arg.f
  /\ ret' = [ i \in DOMAIN VARIANT_WIDTHS |->
               [ width |-> VARIANT_WIDTHS[i],
                 height |-> create_image_variants_height(arg.w, arg.h, VARIANT_WIDTHS[i]) ] ]
  /\ UNCHANGED << arg, pipelineVars, mirrorVars >>

NextFn ==
  \/ ApplySanitize
  \/ ApplySanitizeAgain
  \/ ApplyClassify
  \/ IterateVariants
  \/ ApplyResize
  \/ ApplyCreateVariants

SpecFn == InitFn /\ [][NextFn]_vars


(***************************************************************************)
(* Properties.                                                             *)
(***************************************************************************)
LastCall == hist[Len(hist)]
Failed == { i \in DOMAIN hist : ~hist[i].ok }
Succeeded == { i \in DOMAIN hist : hist[i].ok }

\* the step is a call of process_and_upload_file that returned Err
FileFailedStep == Len(hist') = Len(hist) + 1 /\ ~hist'[Len(hist')].ok

C1_Caught ==
  FileFailedStep =>
    /\ result' = <<>>
    /\ pc' \in {"loop", "list", "cleanup"}
    /\ files' = files \ {hist'[Len(hist')].name}
    /\ files' # {} => pc' = "loop"

C1_AllAttempted ==
  /\ pc = "loop" => files # {}
  /\ total_count = Len(hist) + Cardinality(files)
  /\ (pc = "cleanup" \/ IsSummary(result)) => files = {}

\* C1: a call of process_and_upload_file that fails does not end the run: the
\* step that fails leaves the run without a result and in its loop, only the
\* failed file leaves the listing, and a file of the listing that is left is
\* the next to be processed; every file counted in a listing is either
\* processed or still to come, and none is left when the run reaches the
\* cleanup or returns its summary.
C1_FailureIsolation == [][C1_Caught]_vars /\ []C1_AllAttempted

\* a run that returned its summary after a file failed and a later file was
\* processed with success
C1_Witness ==
  /\ IsSummary(result)
  /\ \E i, j \in DOMAIN hist : i < j /\ ~hist[i].ok /\ hist[j].ok

\* C2: the summary a run returns is "No valid files to process." exactly when
\* no file was found in the listings, and names otherwise the number of calls
\* of process_and_upload_file that returned Ok and the number of files found.
C2_SummaryCount ==
  IsSummary(result) =>
    LET Y == Len(hist)
        X == Cardinality(Succeeded)
    IN  /\ result = << "No valid files to process." >> <=> Y = 0
        /\ Y > 0 => result = << "Successfully processed and uploaded ", X, " out of ", Y, " files." >>
        /\ 0 <= X /\ X <= Y
        /\ Y - X = Cardinality(Failed)

\* a run of two files of which one failed
C2_Witness == result = Summary(1, 2) /\ Cardinality(Failed) = 1

\* the extension under which an image is published
PublishedExtension(n) == IF Extension(n) \in {JPG, JPEG} THEN PNG ELSE Extension(n)

\* the keys of a published image with stem s and extension e
ImageKeys(s, e) ==
  { s \o <<".">> \o e }
  \cup { s \o <<"_","w">> \o Decimal(VARIANT_SETTINGS[v]) \o <<".">> \o e : v \in VariantNames }

FullyPublished(h) ==
  LET s == FileStem(sanitize_filename(h.name))
  IN  /\ ~Exists(wd[h.dir], h.name)
      /\ IF is_image(h.name)
           THEN ImageKeys(s, PublishedExtension(h.name)) \subseteq DOMAIN store /\ s \in DOMAIN metaImages
           ELSE (STATIC_S3_PREFIX \o sanitize_filename(h.name)) \in DOMAIN store /\ s \in DOMAIN metaFiles

Untouched(h) == Exists(wd[h.dir], h.name) /\ h.before = << wd[h.dir][h.name] >>

\* C3: when the processing of a file has ended and the run has not reached
\* its cleanup, the file is fully published (its keys in the bucket, its
\* metadata record written, its source removed) or untouched (its source in
\* the working directory as it was).
C3_AllOrNothing ==
  (hist # <<>> /\ pc \in {"loop", "list", "cleanup"}) => (FullyPublished(LastCall) \/ Untouched(LastCall))

\* C4: when the loop has ended, the source of every file whose processing
\* failed is still in its working directory.
C4_FailedSourceKept ==
  pc = "cleanup" => \A i \in Failed : Exists(wd[hist[i].dir], hist[i].name)


\* C5 as stated: a run that returned a summary left no working tree.
C5_NoTreeAfterSummary ==
  IsSummary(result) => \A d \in Range(Dirs) : ~wexists[d] /\ wd[d] = EmptyDir

\* C5: in a run that returned a summary, whatever the outcomes of its files,
\* every working tree whose removal did not fail is gone, with all it held.
C5_Cleanup ==
  IsSummary(result) => \A d \in Range(Dirs) \ cleanupFailed : ~wexists[d] /\ wd[d] = EmptyDir

\* a run in which a file failed, and whose trees were removed
C5_Witness ==
  /\ IsSummary(result)
  /\ Failed # {}
  /\ cleanupFailed = {}
  /\ \A d \in Range(Dirs) : ~wexists[d]

SetupErrors == { "create_dir_all images", "create_dir_all files", "read_dir inbox", "rename" }

C6_Aborted ==
  (IsError(result) /\ result[2] \in SetupErrors) =>
    /\ pc = "done"
    /\ hist = <<>>
    /\ processed_count = 0
    /\ DOMAIN store = {}
    /\ DOMAIN metaImages = {} /\ DOMAIN metaFiles = {}
    /\ phases = {"Relocate"}

C6_Fails ==
  (pc \in {"start", "relocate"} /\ faults' > faults) =>
    /\ IsError(result') /\ result'[2] \in SetupErrors
    /\ pc' = "done"

\* C6: a step of prepare_working_directories that fails (creating a working
\* directory, listing the inbox, moving a file) ends the run with an error
\* result; a run that ended so processed no file, put no object, wrote no
\* metadata record and entered neither the processing loop nor the cleanup.
C6_SetupErrorsAbort == [][C6_Fails]_vars /\ []C6_Aborted

\* a run that ended with the error of a rename after it had moved a file
C6_Witness ==
  /\ IsError(result) /\ result[2] = "rename"
  /\ \E d \in Range(Dirs) : \E n \in DOMAIN wd[d] : \E m \in DOMAIN inbox0 : wd[d][n] = inbox0[m]

\* C7 as stated: a run in which the removal of a working tree failed ends
\* with an error result.
C7_CleanupErrorAborts == (pc = "done" /\ cleanupFailed # {}) => IsError(result)

\* C7: a run in which the removal of a working tree failed still returns its
\* summary, and the tree is left in place.
C7_CleanupErrorDropped ==
  (pc = "done" /\ cleanupFailed # {}) =>
    /\ IsSummary(result) /\ ~IsError(result)
    /\ \A d \in cleanupFailed : wexists[d]

\* a run that returned a summary although the removal of a tree failed
C7_Witness == pc = "done" /\ cleanupFailed # {} /\ hist # <<>> /\ IsSummary(result)

\* the entries of the inbox the run is to move
ValidInbox ==
  { n \in DOMAIN inbox0 : inbox0[n].kind = "file" /\ is_valid_file_type(n) /\ n # Placeholder }

WorkingDirOf(n) == IF is_image(n) THEN "images" ELSE "files"
Target(n) == << WorkingDirOf(n), sanitize_filename(n) >>

\* prepare_working_directories has returned Ok and the listing has not begun
PrepareReturned == pc = "list" /\ dirIdx = 1 /\ phases = {"Relocate"}

\* the files of the working directories that came from the inbox
Staged ==
  UNION { { << d, m >> : m \in { k \in DOMAIN wd[d] : \E n \in DOMAIN inbox0 : wd[d][k] = inbox0[n] } } :
          d \in Range(Dirs) }

\* C8 as stated: every valid entry has left the inbox and is in its working
\* directory under its sanitized name, and there are as many staged files as
\* valid entries.
C8_EveryEntryStaged ==
  PrepareReturned =>
    /\ \A n \in ValidInbox :
         /\ n \notin DOMAIN inbox
         /\ Exists(wd[Target(n)[1]], Target(n)[2])
         /\ wd[Target(n)[1]][Target(n)[2]] = inbox0[n]
    /\ Cardinality(Staged) = Cardinality(ValidInbox)

\* C8: every valid entry has left the inbox, and its working directory holds
\* under its sanitized name that entry or another valid entry of the same
\* sanitized name (the one moved last); there are as many staged files as
\* distinct pairs of a working directory and a sanitized name.
C8_Relocate ==
  PrepareReturned =>
    /\ \A n \in ValidInbox :
         /\ n \notin DOMAIN inbox
         /\ Exists(wd[Target(n)[1]], Target(n)[2])
         /\ \E m \in ValidInbox : Target(m) = Target(n) /\ wd[Target(n)[1]][Target(n)[2]] = inbox0[m]
         /\ (\A m \in ValidInbox \ {n} : Target(m) # Target(n)) => wd[Target(n)[1]][Target(n)[2]] = inbox0[n]
    /\ Cardinality(Staged) = Cardinality({ Target(n) : n \in ValidInbox })

\* two valid entries of the same sanitized name have been moved
C8_Witness ==
  /\ PrepareReturned
  /\ \E n, m \in ValidInbox : n # m /\ Target(n) = Target(m)

\* the entries of the inbox whose type is not accepted, and the placeholder
Invisible == { n \in DOMAIN inbox0 : ~is_valid_file_type(n) \/ n = Placeholder }

\* C9: an inbox entry of a type that is not accepted, and the placeholder,
\* stays in the inbox as it was, is never an entry to move, is in no working
\* directory, in no listing and in no object of the bucket, is never handed
\* to process_and_upload_file, and metadata records exist only for files
\* that were.
C9_InvalidInvisible ==
  /\ \A n \in Invisible :
       /\ n \in DOMAIN inbox /\ inbox[n] = inbox0[n]
       /\ n \notin pending
       /\ \A d \in Range(Dirs) : \A m \in DOMAIN wd[d] : wd[d][m].src # inbox0[n].src
       /\ \A k \in DOMAIN store : store[k].src # inbox0[n].src
       /\ \A i \in DOMAIN hist : \A j \in DOMAIN hist[i].before : hist[i].before[j].src # inbox0[n].src
  /\ total_count = Len(hist) + Cardinality(files)
  /\ DOMAIN metaImages \cup DOMAIN metaFiles
       \subseteq { FileStem(sanitize_filename(hist[i].name)) : i \in DOMAIN hist }

\* a run that published a file and had an entry to ignore
C9_Witness == IsSummary(result) /\ Invisible # {} /\ Succeeded # {}

\* the step is a call of process_and_upload_file for an image that returned Ok
ImagePublishedStep ==
  /\ Len(hist') = Len(hist) + 1
  /\ hist'[Len(hist')].ok
  /\ is_image(hist'[Len(hist')].name)

C10_Publishes ==
  ImagePublishedStep =>
    LET h == hist'[Len(hist')]
        s == FileStem(sanitize_filename(h.name))
        e == PublishedExtension(h.name)
        keys == ImageKeys(s, e)
    IN  /\ Range(h.puts) = keys
        /\ Len(h.puts) = Cardinality(keys)
        /\ Cardinality(keys) = 1 + Cardinality(VariantNames)
        /\ DOMAIN store' = DOMAIN store \cup keys
        /\ metaImages' = WriteFile(metaImages, s, [ date |-> "now", uid |-> s, width |-> h.before[1].w,
                                                    height |-> h.before[1].h, format |-> e ])
        /\ metaFiles' = metaFiles

\* C10: a call of process_and_upload_file for an image that returns Ok has
\* put exactly the key <stem>.<ext> and one key <stem>_w<width>.<ext> for
\* each width of the table, each once, and has written exactly one metadata
\* record, under the stem, with uid the stem, format the extension and the
\* width and height of the image.
C10_PublishedKeys == [][C10_Publishes]_vars

\* "My Photo.JPG", 300x150, has been published
C10_Witness ==
  /\ hist # <<>>
  /\ LastCall.ok
  /\ LastCall.name = <<"m","y","-","p","h","o","t","o",".","j","p","g">>
  /\ LastCall.before = << File("E1", TRUE, 300, 150) >>
  /\ Range(LastCall.puts) =
       { <<"m","y","-","p","h","o","t","o",".","p","n","g">>,
         <<"m","y","-","p","h","o","t","o","_","w","2","0","0",".","p","n","g">>,
         <<"m","y","-","p","h","o","t","o","_","w","4","0","0",".","p","n","g">>,
         <<"m","y","-","p","h","o","t","o","_","w","8","0","0",".","p","n","g">>,
         <<"m","y","-","p","h","o","t","o","_","w","1","2","0","0",".","p","n","g">> }
  /\ metaImages[<<"m","y","-","p","h","o","t","o">>] =
       [ date |-> "now", uid |-> <<"m","y","-","p","h","o","t","o">>, width |-> 300, height |-> 150,
         format |-> PNG ]

\* the step is a call of process_and_upload_file
CallStep == Len(hist') = Len(hist) + 1

\* the run is between two calls of process_and_upload_file, or after the last
BetweenCalls == hist # <<>> /\ pc \in {"loop", "list", "cleanup"}

EndsWith(s, suffix) ==
  Len(s) >= Len(suffix) /\ SubSeq(s, Len(s) - Len(suffix) + 1, Len(s)) = suffix

C11_Converted ==
  (CallStep /\ Extension(hist'[Len(hist')].name) \in { <<"j","p","g">>, <<"j","p","e","g">> }) =>
    LET h == hist'[Len(hist')]
        s == FileStem(sanitize_filename(h.name))
        original == s \o <<".","p","n","g">>
    IN  /\ \A i \in DOMAIN h.puts : EndsWith(h.puts[i], <<".","p","n","g">>)
        /\ h.puts # <<>> =>
             /\ h.puts[1] = original
             /\ store'[original].enc = "png" /\ store'[original].src = h.before[1].src
             /\ ~Exists(wd'[h.dir], h.name)
        /\ h.err = "upload" => ~Exists(wd'[h.dir], h.name)
        /\ metaImages' # metaImages =>
             /\ h.puts # <<>>
             /\ metaImages'[s].format = <<"p","n","g">>
        /\ h.ok => h.puts # <<>> /\ metaImages' # metaImages

C11_NoJpegKey ==
  \A k \in DOMAIN store : ~EndsWith(k, <<".","j","p","g">>) /\ ~EndsWith(k, <<".","j","p","e","g">>)

\* C11: a call of process_and_upload_file for an image whose extension is
\* jpg or jpeg puts only keys that end in .png; when it puts a key, the first
\* is <stem>.png, the object is the PNG encoding of the source, and the
\* jpg/jpeg file is gone; the jpg/jpeg file is gone as well when the upload
\* of the original is what failed; a metadata record it writes has format
\* png; and no key of the bucket ever ends in .jpg or .jpeg.
C11_JpegNormalised == [][C11_Converted]_vars /\ []C11_NoJpegKey

\* a jpg image has been published
C11_Witness ==
  /\ hist # <<>>
  /\ LastCall.ok
  /\ Extension(LastCall.name) = <<"j","p","g">>
  /\ Len(LastCall.puts) = 5
  /\ <<"m","y","-","p","h","o","t","o",".","p","n","g">> \in DOMAIN store

\* the variant files in the working directories
VariantFiles ==
  UNION { { << d, n >> : n \in { m \in DOMAIN wd[d] : wd[d][m].enc = "variant" } } : d \in Range(Dirs) }

\* C12: when a call of process_and_upload_file has ended, whether it
\* returned Ok or Err (the removal of a variant file itself not being what
\* failed), no variant file is in the working directories.
C12_NoVariantFileLeft ==
  (BetweenCalls /\ \A i \in DOMAIN hist : hist[i].err # "remove_variant") => VariantFiles = {}

\* the step is a call of process_and_upload_file for another file than an
\* image that returned Ok
GenericPublishedStep ==
  /\ CallStep
  /\ hist'[Len(hist')].ok
  /\ ~is_image(hist'[Len(hist')].name)

C14_Publishes ==
  GenericPublishedStep =>
    LET h == hist'[Len(hist')]
        n == h.name
        s == FileStem(n)
        e == Extension(n)
        key == <<"s","t","a","t","i","c","/">> \o n
    IN  /\ h.puts = << key >>
        /\ store' = WriteFile(store, key, h.before[1])
        /\ metaFiles' = WriteFile(metaFiles, s, [ date |-> "now", uid |-> s, format |-> e ])
        /\ DOMAIN metaFiles'[s] = {"date", "uid", "format"}
        /\ metaImages' = metaImages
        /\ wd'["images"] = wd["images"]
        /\ VariantFiles' = VariantFiles

\* C14: a call of process_and_upload_file that returns Ok for a staged file
\* n that is not an image has put exactly one object, under "static/" + n,
\* has created no variant file, has written exactly one record, under the
\* stem of n in data/files, with the fields date, uid (the stem) and format
\* (the extension) and no other, and has written nothing in data/images.
C14_GenericPublished == [][C14_Publishes]_vars

\* "Report.PDF" has been published
C14_Witness ==
  /\ hist # <<>>
  /\ LastCall.ok
  /\ LastCall.name = <<"r","e","p","o","r","t",".","p","d","f">>
  /\ <<"s","t","a","t","i","c","/","r","e","p","o","r","t",".","p","d","f">> \in DOMAIN store
  /\ metaFiles[<<"r","e","p","o","r","t">>] =
       [ date |-> "now", uid |-> <<"r","e","p","o","r","t">>, format |-> <<"p","d","f">> ]

\* C15: when the loop has handled a file whose processing succeeded, in a
\* run without I/O fault, neither the file nor, for a jpg/jpeg image, the
\* PNG it was converted to is in the working directory.
C15_NoLocalFileAfterSuccess ==
  (BetweenCalls /\ LastCall.ok /\ faults = 0) =>
    /\ ~Exists(wd[LastCall.dir], LastCall.name)
    /\ NeedsConversion(LastCall.name) => ~Exists(wd[LastCall.dir], WithExtension(LastCall.name, PNG))

\* C13: the variant widths come in the same order in any two runs.
C13_SameOrderInEveryRun ==
  (fn = "VARIANT_SETTINGS.iter" /\ Len(ret) >= 2) => \A i, j \in DOMAIN ret : ret[i] = ret[j]

\* the characters the specification allows in a sanitized name
AsciiNameChars ==
  { "a","b","c","d","e","f","g","h","i","j","k","l","m","n","o","p","q","r","s","t","u","v","w","x","y","z",
    "0","1","2","3","4","5","6","7","8","9", "-", "_", "." }

\* C19: sanitize_filename applied to its own result returns that result,
\* and every character of its result is a lower-case ASCII letter, a digit,
\* a hyphen, an underscore or a dot.
C19_IdempotentAscii ==
  (fn = "sanitize_filename" /\ Len(ret) = 2) =>
    /\ ret[2] = ret[1]
    /\ \A i \in DOMAIN ret[1] : ret[1][i] \in AsciiNameChars

\* the extensions the specification accepts
C20_Images == { <<"p","n","g">>, <<"j","p","g">>, <<"j","p","e","g">>, <<"g","i","f">>, <<"b","m","p">>,
                <<"t","i","f","f">>, <<"w","e","b","p">> }
C20_Accepted ==
  C20_Images
  \cup { <<"d","o","c">>, <<"d","o","c","x">>, <<"p","d","f">>, <<"t","x","t">>, <<"r","t","f">>,
         <<"x","l","s">>, <<"x","l","s","x">>, <<"c","s","v">>, <<"p","p","t">>, <<"p","p","t","x">>,
         <<"z","i","p">>, <<"r","a","r">>, <<"7","z">> }

\* the name of the argument has an extension: it is made of a stem that is
\* not empty, a dot and an extension (a name that only begins with a dot has
\* none)
C20_HasExtension == arg.dot /\ arg.stem # <<>>

\* C20: is_valid_file_type is true exactly of the names whose extension, in
\* lower case, is one of the twenty accepted, and false of a name without
\* extension; is_image is true exactly of those whose extension, in lower
\* case, is one of the seven of images; is_image implies is_valid_file_type.
C20_Classification ==
  (fn = "classify" /\ Len(ret) = 1) =>
    /\ ret[1].valid <=> (C20_HasExtension /\ ToLowercase(arg.ext) \in C20_Accepted)
    /\ ret[1].image <=> (C20_HasExtension /\ ToLowercase(arg.ext) \in C20_Images)
    /\ ret[1].image => ret[1].valid
    /\ ~C20_HasExtension => ~ret[1].valid

\* "a.JPEG" has been classified as an image of a valid type
C20_Witness ==
  /\ fn = "classify"
  /\ NameOf(arg) = <<"a",".","J","P","E","G">>
  /\ ret = << [ valid |-> TRUE, image |-> TRUE ] >>

\* the records of the calls of download_file of run r, in their order
DownloadsOf(r) == SelectSeq(mlog, LAMBDA x : x.run = r /\ x.op = "download_file")

\* the record of create_local_dir of run r
SetupOf(r) == SelectSeq(mlog, LAMBDA x : x.run = r /\ x.op = "create_local_dir")[1]

\* the step is a call of download_file
DownloadStep == Len(mlog') = Len(mlog) + 1 /\ mlog'[Len(mlog')].op = "download_file"

\* in run r the entries were read and every call of download_file returned Ok
EveryEntryDownloaded(r) ==
  /\ SetupOf(r).ok
  /\ \A i \in DOMAIN DownloadsOf(r) : DownloadsOf(r)[i].ok

C16_Skips ==
  (DownloadStep /\ mkeys[ki].key \in DOMAIN mirror) =>
    /\ ~mlog'[Len(mlog')].got
    /\ mlog'[Len(mlog')].ok
    /\ mirror' = mirror

C16_SecondRun ==
  \A i \in DOMAIN mlog :
    LET x == mlog[i]
    IN  ( /\ x.op = "download_file"
          /\ x.run >= 2
          /\ EveryEntryDownloaded(x.run - 1)
          /\ \E j \in DOMAIN DownloadsOf(x.run - 1) : DownloadsOf(x.run - 1)[j].key = x.key )
        => (x.existed /\ ~x.got /\ x.ok)

\* C16: a call of download_file for an entry whose local path holds a file
\* sends no get_object, returns Ok and leaves the mirror as it is; and in a
\* run that follows a run in which every entry was downloaded, no call of
\* download_file for an entry of that run sends a get_object.
C16_MirrorIdempotent == [][C16_Skips]_vars /\ []C16_SecondRun

\* a second run has skipped an entry the first run downloaded
C16_Witness ==
  /\ runs = 2
  /\ EveryEntryDownloaded(1)
  /\ \E i \in DOMAIN DownloadsOf(1) : \E j \in DOMAIN DownloadsOf(2) :
       /\ DownloadsOf(1)[i].got /\ DownloadsOf(1)[i].ok
       /\ DownloadsOf(2)[j].key = DownloadsOf(1)[i].key
       /\ ~DownloadsOf(2)[j].got

C17_Continues ==
  (DownloadStep /\ ~mlog'[Len(mlog')].ok) =>
    /\ ki' = ki + 1
    /\ ki < Len(mkeys) => (mpc' = "loop" /\ mresult' = "none" /\ runs' = runs)
    /\ ki = Len(mkeys) => (mpc' = "idle" /\ mresult' = TRUE /\ runs' = runs + 1)

C17_Result ==
  (runs >= 1 /\ mpc = "idle") =>
    /\ mresult \in BOOLEAN
    /\ mresult <=> SetupOf(runs).ok
    /\ mresult => /\ Len(DownloadsOf(runs)) = Len(mkeys)
                  /\ \A i \in DOMAIN mkeys : DownloadsOf(runs)[i].key = mkeys[i].key

\* C17: a call of download_file that fails leaves the loop at the next
\* entry (or, after the last entry, the operation returns true); an
\* operation that has returned has returned true exactly if create_local_dir
\* succeeded (S3Mount::new has no failing outcome), and then download_file
\* was called once for every entry, in the order of the entries, whatever
\* the calls returned.
C17_FailureContainment == [][C17_Continues]_vars /\ []C17_Result

\* an operation that returned true although each of its two downloads failed
C17_Witness ==
  /\ runs >= 1 /\ mpc = "idle"
  /\ mresult = TRUE
  /\ Len(DownloadsOf(runs)) = 2
  /\ \A i \in DOMAIN DownloadsOf(runs) : ~DownloadsOf(runs)[i].ok

\* the positions of content at which a line begins
LineStarts(content) == { i \in DOMAIN content : i = 1 \/ content[i - 1] = "\n" }

\* the line that begins at position i
LineAt(content, i) == IF content[i] = "\n" THEN << >> ELSE SubSeq(content, i, LineEnd(content, i))

\* the key of a line "key : value" (the line itself when it holds no colon)
\* and its value
KeyOfLine(line) ==
  LET colons == { i \in DOMAIN line : line[i] = ":" }
  IN  IF colons = {} THEN line
      ELSE Trim(SubSeq(line, 1, (CHOOSE i \in colons : \A j \in colons : i <= j) - 1))
ValueOfLine(line) ==
  LET colons == { i \in DOMAIN line : line[i] = ":" }
  IN  Trim(SubSeq(line, (CHOOSE i \in colons : \A j \in colons : i <= j) + 1, Len(line)))

\* the lines of a document that give the field name a value
FieldLines(content, name) ==
  { i \in LineStarts(content) :
      /\ \E j \in DOMAIN LineAt(content, i) : LineAt(content, i)[j] = ":"
      /\ KeyOfLine(LineAt(content, i)) = name }

HasField(content, name) == FieldLines(content, name) # {}
FieldOf(content, name) ==
  ValueOfLine(LineAt(content, CHOOSE i \in FieldLines(content, name) :
                                \A j \in FieldLines(content, name) : i <= j))

\* the documents of IMAGE_DATA_DIR that are to yield an entry: the readable
\* .yml documents with a uid field and a format field
Complete ==
  { n \in DOMAIN docs :
      /\ EndsWith(n, <<".","y","m","l">>)
      /\ docs[n].readable
      /\ HasField(docs[n].content, <<"u","i","d">>)
      /\ HasField(docs[n].content, <<"f","o","r","m","a","t">>) }

\* the entry a complete document is to yield
EntryFor(n) ==
  LET uid == FieldOf(docs[n].content, <<"u","i","d">>)
      format == FieldOf(docs[n].content, <<"f","o","r","m","a","t">>)
  IN  [ key |-> uid \o <<".">> \o format, uid |-> uid, format |-> format ]

\* C18: when get_image_metadata has read the directory, the entries it
\* returned are, each as many times, the entries of the readable .yml
\* documents that have a uid field and a format field: one entry per such
\* document, none for another document.
C18_EntriesOfCompleteDocuments ==
  (mfaults = 0 /\ (mpc = "loop" \/ runs >= 1)) =>
    /\ Len(mkeys) = Cardinality(Complete)
    /\ \A n \in Complete :
         Cardinality({ i \in DOMAIN mkeys : mkeys[i] = EntryFor(n) })
           = Cardinality({ m \in Complete : EntryFor(m) = EntryFor(n) })

\* the height of a variant of width targetWidth according to the
\* specification: targetWidth * originalHeight / originalWidth rounded to the
\* nearest integer
RoundedHeight(originalWidth, originalHeight, targetWidth) ==
  (2 * targetWidth * originalHeight + originalWidth) \div (2 * originalWidth)

\* C21: each computation of the dimensions of a variant (resize_image for
\* each width of the table, create_image_variants for each width of its
\* table) gives the width of the table and the height
\* round(targetWidth * originalHeight / originalWidth).
C21_VariantDimensions ==
  /\ (fn = "resize_image" /\ Len(ret) = 1) =>
       ret[1] = [ width |-> arg.width, height |-> RoundedHeight(arg.w, arg.h, arg.width) ]
  /\ fn = "create_image_variants" =>
       /\ { ret[i].width : i \in DOMAIN ret } = { 200, 400, 800, 1200 }
       /\ \A i \in DOMAIN ret : ret[i].height = RoundedHeight(arg.w, arg.h, ret[i].width)

\* the run found no working tree
NoWorkingTree == \A d \in Range(Dirs) : ~wexists0[d]

\* C22 as stated: in a run that found no inbox, nothing is uploaded, no
\* metadata record is written, no file is deleted, the run does not fail and
\* what it returns is "No valid files to process.".
C22_MissingInboxDoesNothing ==
  ~inboxExists =>
    /\ store = EmptyDir
    /\ metaImages = [ u \in {} |-> 0 ] /\ metaFiles = [ u \in {} |-> 0 ]
    /\ wd = wd0
    /\ ~IsError(result)
    /\ pc = "done" => result = << "No valid files to process." >>

C22_RelocateReturnsOk ==
  (pc = "start" /\ ~inboxExists) =>
    /\ pc' = "list" /\ dirIdx' = 1
    /\ result' = <<>>
    /\ faults' = faults
    /\ << inbox', wexists', wd', store', metaImages', metaFiles' >>
         = << inbox, wexists, wd, store, metaImages, metaFiles >>

C22_OnlyWhatWasStaged ==
  ~inboxExists =>
    /\ inbox = EmptyDir /\ pending = {}
    /\ ~(IsError(result) /\ result[2] \in SetupErrors)
    /\ \A i \in DOMAIN hist :
         /\ Exists(wd0[hist[i].dir], hist[i].name)
         /\ hist[i].before = << wd0[hist[i].dir][hist[i].name] >>
    /\ \A k \in DOMAIN store : \E d \in Range(Dirs) : \E n \in DOMAIN wd0[d] : store[k].src = wd0[d][n].src
    /\ NoWorkingTree =>
         /\ hist = <<>> /\ total_count = 0 /\ faults = 0
         /\ store = EmptyDir
         /\ metaImages = [ u \in {} |-> 0 ] /\ metaFiles = [ u \in {} |-> 0 ]
         /\ wd = wd0 /\ wexists = wexists0
         /\ ~IsError(result)
         /\ pc = "done" => result = << "No valid files to process." >>

\* C22: in a run that found no inbox, prepare_working_directories returns Ok
\* and has moved nothing; the run then handles the files an earlier run left
\* in the working directories, and only those; when it found no working
\* tree, it uploads nothing, writes no metadata record, deletes nothing,
\* meets no error and returns "No valid files to process.".
C22_MissingInbox == [][C22_RelocateReturnsOk]_vars /\ []C22_OnlyWhatWasStaged

\* a run without inbox and without working tree has returned
C22_Witness ==
  /\ ~inboxExists
  /\ NoWorkingTree
  /\ pc = "done"
  /\ phases = {"Relocate", "ProcessEach", "Cleanup", "Summarize"}
  /\ result = NoValidFiles

C23_NoDelete ==
  /\ DOMAIN store \subseteq DOMAIN store'
  /\ DOMAIN metaImages \subseteq DOMAIN metaImages'
  /\ DOMAIN metaFiles \subseteq DOMAIN metaFiles'
  /\ IF CallStep
       THEN LET h == hist'[Len(hist')]
            IN  /\ DOMAIN store' = DOMAIN store \cup Range(h.puts)
                /\ \A k \in DOMAIN store \ Range(h.puts) : store'[k] = store[k]
                /\ ~h.ok => processed_count' = processed_count
       ELSE store' = store /\ metaImages' = metaImages /\ metaFiles' = metaFiles

C23_Kept ==
  /\ processed_count = Cardinality(Succeeded)
  /\ \A i \in DOMAIN hist :
       LET h == hist[i]
           s == FileStem(sanitize_filename(h.name))
       IN  /\ Range(h.puts) \subseteq DOMAIN store
           /\ (is_image(h.name) /\ h.puts # <<>> /\ h.err # "write_metadata") =>
                /\ s \in DOMAIN metaImages
                /\ metaImages[s].uid = s
                /\ (s \o <<".">> \o metaImages[s].format) \in DOMAIN store

\* C23: no step of the pipeline removes a key from the bucket, and a call of
\* process_and_upload_file changes only the objects under the keys it puts;
\* no step removes a metadata record; so at every moment of a run, and at
\* its end, every key put by a call (also by a call that failed later: the
\* original and the variants put before the failure) is in the bucket, and
\* the record the call wrote after the upload of the original is in
\* data/images, while a call that failed is not counted as processed.
C23_NoRollback == [][C23_NoDelete]_vars /\ []C23_Kept

\* a run has returned after a call that failed in the upload of its second
\* variant: the original and the first variant are in the bucket, the record
\* is written, and the file is not counted
C23_Witness ==
  /\ pc = "done"
  /\ IsSummary(result)
  /\ \E i \in DOMAIN hist :
       /\ hist[i].err = "upload_variant"
       /\ Len(hist[i].puts) = 2
       /\ Range(hist[i].puts) \subseteq DOMAIN store
       /\ FileStem(sanitize_filename(hist[i].name)) \in DOMAIN metaImages
  /\ processed_count < total_count

\* the step is a call of process_and_upload_file for an image
ImageCallStep == CallStep /\ is_image(hist'[Len(hist')].name)

C24_Order ==
  ImageCallStep =>
    LET h == hist'[Len(hist')]
        s == FileStem(sanitize_filename(h.name))
        e == PublishedExtension(h.name)
        original == s \o <<".">> \o e
        written == s \in DOMAIN metaImages' /\ metaImages'[s].uid = s /\ metaImages'[s].format = e
    IN  /\ h.puts # <<>> => h.puts[1] = original
        /\ Len(h.puts) >= 2 => Range(Tail(h.puts)) \subseteq (ImageKeys(s, e) \ {original})
        /\ h.puts = <<>> => metaImages' = metaImages
        /\ metaImages' # metaImages => (h.puts # <<>> /\ written)
        /\ Len(h.puts) >= 2 => written
        /\ h.err = "upload" => (h.puts = <<>> /\ metaImages' = metaImages)
        /\ h.err = "write_metadata" => (h.puts = << original >> /\ metaImages' = metaImages)
        /\ \A m \in DOMAIN metaImages' \ {s} : m \in DOMAIN metaImages /\ metaImages'[m] = metaImages[m]

C24_Refers ==
  /\ \A s \in DOMAIN metaImages :
       LET key == metaImages[s].uid \o <<".">> \o metaImages[s].format
       IN  /\ key \in DOMAIN store
           /\ \E i \in DOMAIN hist : hist[i].puts # <<>> /\ hist[i].puts[1] = key
  /\ \A i \in DOMAIN hist :
       is_image(hist[i].name) =>
         \A j \in 2..Len(hist[i].puts) :
           /\ hist[i].puts[j] \in DOMAIN store
           /\ hist[i].puts[1] \in DOMAIN store

\* C24: a call of process_and_upload_file for an image puts the key of the
\* original first, writes the metadata record only when that put succeeded,
\* and puts the key of a variant only when the record is written; so in
\* every state the key uid.format of every record of data/images is a key of
\* the bucket that a call put as its original, and every key put as the
\* variant of an original is in the bucket together with that original.
C24_PublishOrder == [][C24_Order]_vars /\ []C24_Refers

\* a call has failed in the writing of its record, after the upload of the
\* original, and put no variant; another has put the original, written its
\* record and put the four variants
C24_Witness ==
  \E i, j \in DOMAIN hist :
    /\ hist[i].err = "write_metadata" /\ Len(hist[i].puts) = 1
    /\ FileStem(sanitize_filename(hist[i].name)) \notin DOMAIN metaImages
    /\ hist[j].ok /\ Len(hist[j].puts) = 5
    /\ FileStem(sanitize_filename(hist[j].name)) \in DOMAIN metaImages

\* the document of a record of data/images
DocumentOf(r) == Document(TRUE, ImageMetadataDocument(r.uid, r.width, r.height, r.format))

\* data/images as the pipeline has written it: under <uid>.yml the document
\* of the record of uid
RECURSIVE DocumentsOf(_)
DocumentsOf(uids) ==
  IF uids = {} THEN << >>
  ELSE LET u == CHOOSE x \in uids : TRUE
       IN  ((u \o <<".","y","m","l">>) :> DocumentOf(metaImages[u])) @@ DocumentsOf(uids \ {u})
ImageDataDir == DocumentsOf(DOMAIN metaImages)

C25_Reconstructs ==
  ImagePublishedStep =>
    \A h \in { hist'[Len(hist')] } :
      \A doc \in { DocumentOf(metaImages'[FileStem(sanitize_filename(h.name))]).content } :
        \A parsed \in { parse_image_yaml(doc) } :
          /\ parsed # << >>
          /\ ImageMetadata(parsed[1][1], parsed[1][2]).key = h.puts[1]
          /\ ImageMetadata(parsed[1][1], parsed[1][2]).key \in DOMAIN store'
          /\ NeedsConversion(h.name) => parsed[1][2] = <<"p","n","g">>

C25_RequestsStoredKeys ==
  pc = "done" =>
    \A dir \in { ImageDataDir } :
      \A entries \in get_image_metadata(dir, FALSE) :
        /\ Len(entries) = Cardinality(DOMAIN metaImages)
        /\ \A i \in DOMAIN entries : entries[i].key \in DOMAIN store

\* C25: when a call of process_and_upload_file for an image returns Ok, the
\* document it wrote is parsed by parse_image_yaml into a uid and a format
\* whose key uid.format is the key under which the call put the original (for
\* a jpg/jpeg image the format is png), and that key is in the bucket; and
\* when the run has returned, get_image_metadata yields for the documents of
\* data/images one entry each, whose key is in the bucket.
C25_KeyRoundTrip == [][C25_Reconstructs]_vars /\ []C25_RequestsStoredKeys

\* the run has returned after it published a jpg image, and the entry of its
\* document has the key of the PNG in the bucket
C25_Witness ==
  /\ pc = "done"
  /\ \E i \in DOMAIN hist : hist[i].ok /\ NeedsConversion(hist[i].name)
  /\ \E dir \in { ImageDataDir } :
       \E entries \in get_image_metadata(dir, FALSE), i \in 1..Cardinality(DOMAIN metaImages) :
         /\ entries[i].key = <<"m","y","-","p","h","o","t","o",".","p","n","g">>
         /\ entries[i].key \in DOMAIN store

\* the staged files of the working directories other than the one the call
\* of the step is for
OtherStaged ==
  { x \in UNION { { << d, m >> : m \in { k \in DOMAIN wd[d] : WorkingFilter(wd[d], k) } } : d \in Range(Dirs) } :
      x # << hist'[Len(hist')].dir, hist'[Len(hist')].name >> }

C26_OthersKept ==
  CallStep =>
    \A x \in OtherStaged : Exists(wd'[x[1]], x[2]) /\ wd'[x[1]][x[2]] = wd[x[1]][x[2]]

\* C26: a call of process_and_upload_file for a staged file, and the removal
\* of that file after Ok, leave every other staged file of the working
\* directories in place with the content it had.
C26_OthersLeftAlone == [][C26_OthersKept]_vars

\* the errors of download_file that come from the fetch: get_object().send()
\* (the key missing in the bucket, or another error) and body.collect()
FetchErrors == { "NoSuchKey", "get_object", "collect" }

\* the call of the record sent the get_object and collected the whole body
BodyFetched(x) == x.op = "download_file" /\ x.got /\ x.err \notin FetchErrors

\* the calls of download_file for key before the i-th record
EarlierCalls(key, i) == { j \in 1..(i - 1) : mlog[j].op = "download_file" /\ mlog[j].key = key }

C27_NoFileLeft ==
  (DownloadStep /\ mlog'[Len(mlog')].err \in FetchErrors) =>
    /\ mirror' = mirror
    /\ ~ExistsLocal(mirror', mkeys[ki].key)

C27_NotSkipped ==
  \A i \in DOMAIN mlog :
    \A js \in { EarlierCalls(mlog[i].key, i) } :
      ( /\ mlog[i].op = "download_file"
        /\ js # {}
        /\ mlog[CHOOSE j \in js : \A k \in js : k <= j].err \in FetchErrors )
      => /\ ~mlog[i].existed
         /\ mlog[i].got \/ mlog[i].err = "create_dir_all"

C27_FetchedOnly ==
  \A key \in DOMAIN mirror :
    mirror[key].from = "remote" =>
      \E i \in DOMAIN mlog : mlog[i].key = key /\ BodyFetched(mlog[i])

\* C27: a call of download_file that fails in get_object or in the
\* collecting of the body leaves the mirror as it was, with no file at the
\* local path of the entry; the next call for that entry (a later run's)
\* finds no file there and goes past the check of the local path (it sends
\* the get_object again unless create_dir_all fails first); and every file
\* the mirror sync has put in the mirror is the file of an entry for which a
\* call collected the whole body before it wrote.
C27_FailedFetchRetried == [][C27_NoFileLeft]_vars /\ []C27_NotSkipped /\ []C27_FetchedOnly

\* a first run failed to fetch an entry, and the second run fetched it and
\* wrote its file
C27_Witness ==
  /\ runs = 2
  /\ \E i \in DOMAIN DownloadsOf(1) : \E j \in DOMAIN DownloadsOf(2) :
       /\ DownloadsOf(1)[i].err \in {"get_object", "collect"}
       /\ DownloadsOf(2)[j].key = DownloadsOf(1)[i].key
       /\ ~DownloadsOf(2)[j].existed /\ DownloadsOf(2)[j].got /\ DownloadsOf(2)[j].ok
       /\ ExistsLocal(mirror, DownloadsOf(2)[j].key)
       /\ mirror[DownloadsOf(2)[j].key] = Local("remote", TRUE)

====
